---- MODULE Spec2Model ----
(***************************************************************************)
(* Model of the agent query orchestrator of my-assistant:                  *)
(*   - the per-user lane queue (src/src/bot/telegram.ts, withUserLock)     *)
(*   - the Claude provider's query loop with retry, backoff and model      *)
(*     failover (src/unnamed/part_010, ClaudeProvider.query)               *)
(***************************************************************************)
EXTENDS Integers, Sequences, FiniteSets, TLC

(***************************************************************************)
(* Bounds of the model                                                     *)
(***************************************************************************)
\* MaxSubmit: the number of withUserLock calls made in a run, over all users.
MaxSubmit == 5

\* const MAX_QUEUE_DEPTH = 3;
MAX_QUEUE_DEPTH == 3

Users == {1, 2}

\* An item is one call of withUserLock: <<userId, index of the call for that user>>.
NoItem == <<0, 0>>

VARIABLES
    userLocks,        \* Map<number, Promise<void>>: the tail promise (item) per key
    userQueueDepth,   \* Map<number, number>: 0 stands for "no entry"
    lane,             \* per user, the withUserLock calls made so far, in call order
    jobs,             \* the microtask queue: promise reaction jobs, FIFO
    unhandled,        \* items whose finally() promise rejected with no handler
    started,          \* per user, the order in which work items started
    completed         \* per user, the order in which work items settled

laneVars == <<userLocks, userQueueDepth, lane, jobs, unhandled, started, completed>>

(***************************************************************************)
(* withUserLock                                                            *)
(***************************************************************************)

\* Mutant of Overflows: an off-by-one cap test.
OverflowsOffByOne(depth) == depth > MAX_QUEUE_DEPTH

\* if (depth >= MAX_QUEUE_DEPTH)
Overflows(depth) == depth >= MAX_QUEUE_DEPTH

\* Mutant of LockKey: one tail promise shared by all users.
LockKeyGlobal(u) == 1

\* userLocks is keyed by userId
LockKey(u) == u

\* Mutant of PrevOf: the new work is not chained behind the tail.
PrevOfUnchained(locks, key) == NoItem

\* const prev = userLocks.get(userId) || Promise.resolve();
\* NoItem stands for the already-resolved promise.
PrevOf(locks, key) == locks[key]

\* Mutant of ThenRuns: prev.then(fn) without the rejection handler.
ThenRunsOnSuccessOnly(prevSt) == prevSt = "fulfilled"

\* const current = prev.then(fn, fn): fn is both the fulfilment and the
\* rejection handler, so it runs whatever prev settled to.
ThenRuns(prevSt) == prevSt \in {"fulfilled", "rejected"}

Item(i) == lane[i[1]][i[2]]

\* The state of the promise `current` of item i (NoItem: Promise.resolve()).
PromiseState(i) ==
    IF i = NoItem THEN "fulfilled"
    ELSE IF Item(i).st \in {"fulfilled", "rejected"} THEN Item(i).st
    ELSE "pending"

AllItems == {<<u, k>> : u \in Users, k \in 1..MaxSubmit}

Submitted == {i \in AllItems : i[2] <= Len(lane[i[1]])}

\* Work items admitted and not yet complete (waiting or running).
Admitted(u) == {k \in 1..Len(lane[u]) : lane[u][k].st \in {"waiting", "running"}}

\* The reactions registered on item i's promise while it was pending, in
\* registration order: its own finally callback first (registered in the
\* withUserLock call that created it), then the then(fn, fn) of the item
\* chained behind it.
RECURSIVE SeqOfSet(_)
SeqOfSet(S) ==
    IF S = {} THEN <<>>
    ELSE LET x == CHOOSE y \in S : \A z \in S : (y[1] < z[1]) \/ (y[1] = z[1] /\ y[2] <= z[2])
         IN <<x>> \o SeqOfSet(S \ {x})

Reactions(i, ln) ==
    <<[kind |-> "finally", item |-> i]>> \o
    [n \in 1..Cardinality({j \in AllItems : j[2] <= Len(ln[j[1]]) /\ ln[j[1]][j[2]].prev = i
                                             /\ ln[j[1]][j[2]].st = "waiting"}) |->
        [kind |-> "then",
         item |-> SeqOfSet({j \in AllItems : j[2] <= Len(ln[j[1]]) /\ ln[j[1]][j[2]].prev = i
                                              /\ ln[j[1]][j[2]].st = "waiting"})[n]]]

\* function withUserLock(userId, fn, onOverflow)
Submit(u) ==
    /\ Cardinality(Submitted) < MaxSubmit
    /\ LET depth == userQueueDepth[u]
           me    == <<u, Len(lane[u]) + 1>>
           seen  == Cardinality(Admitted(u))
       IN IF Overflows(depth)
          THEN \* onOverflow?.(); return Promise.resolve();
               /\ lane' = [lane EXCEPT ![u] = Append(@,
                      [st |-> "dropped", prev |-> NoItem, ran |-> FALSE,
                       seen |-> seen, overflow |-> TRUE])]
               /\ UNCHANGED <<userLocks, userQueueDepth, jobs>>
          ELSE LET prev == PrevOf(userLocks, LockKey(u))
               IN /\ userQueueDepth' = [userQueueDepth EXCEPT ![u] = depth + 1]
                  /\ lane' = [lane EXCEPT ![u] = Append(@,
                         [st |-> "waiting", prev |-> prev, ran |-> FALSE,
                          seen |-> seen, overflow |-> FALSE])]
                  /\ userLocks' = [userLocks EXCEPT ![LockKey(u)] = me]
                  \* then() on a settled promise queues its reaction at once
                  /\ jobs' = IF PromiseState(prev) = "pending" THEN jobs
                             ELSE Append(jobs, [kind |-> "then", item |-> me])
    /\ UNCHANGED <<unhandled, started, completed>>

\* The promise returned by fn settles, and with it `current`: its reactions
\* are queued as microtasks.
Finish(u, k, ok) ==
    /\ k \in 1..Len(lane[u])
    /\ lane[u][k].st = "running"
    /\ lane' = [lane EXCEPT ![u][k].st = IF ok THEN "fulfilled" ELSE "rejected"]
    /\ jobs' = jobs \o Reactions(<<u, k>>, lane)
    /\ completed' = [completed EXCEPT ![u] = Append(@, k)]
    /\ UNCHANGED <<userLocks, userQueueDepth, unhandled, started>>

\* The reaction of prev.then(fn, fn) for item i.
RunThen(i) ==
    IF ThenRuns(PromiseState(Item(i).prev))
    THEN /\ lane' = [lane EXCEPT ![i[1]][i[2]].st = "running", ![i[1]][i[2]].ran = TRUE]
         /\ started' = [started EXCEPT ![i[1]] = Append(@, i[2])]
         /\ jobs' = Tail(jobs)
         /\ UNCHANGED <<userLocks, userQueueDepth, unhandled, completed>>
    ELSE \* no handler for the way prev settled: current takes prev's
         \* rejection without fn having run
         /\ lane' = [lane EXCEPT ![i[1]][i[2]].st = "rejected"]
         /\ jobs' = Tail(jobs) \o Reactions(i, lane)
         /\ completed' = [completed EXCEPT ![i[1]] = Append(@, i[2])]
         /\ UNCHANGED <<userLocks, userQueueDepth, unhandled, started>>

\* Mutant of Decremented: the finally callback leaves the depth as it is.
DecrementedNever(d) == d

\* if (d <= 1) userQueueDepth.delete(userId); else userQueueDepth.set(userId, d - 1);
Decremented(d) == IF d <= 1 THEN 0 ELSE d - 1

\* current.finally(() => { ... }): the callback, then the promise finally()
\* returned settles like current; nothing handles it.
RunFinally(i) ==
    LET u == i[1]
        d == IF userQueueDepth[u] = 0 THEN 1 ELSE userQueueDepth[u]
    IN /\ userQueueDepth' = [userQueueDepth EXCEPT ![u] = Decremented(d)]
       /\ userLocks' = IF userLocks[LockKey(u)] = i
                       THEN [userLocks EXCEPT ![LockKey(u)] = NoItem]
                       ELSE userLocks
       /\ unhandled' = IF Item(i).st = "rejected" THEN unhandled \cup {i} ELSE unhandled
       /\ jobs' = Tail(jobs)
       /\ UNCHANGED <<lane, started, completed>>

RunJob ==
    /\ jobs # <<>>
    /\ IF Head(jobs).kind = "then" THEN RunThen(Head(jobs).item)
                                   ELSE RunFinally(Head(jobs).item)

LaneInit ==
    /\ userLocks = [u \in Users |-> NoItem]
    /\ userQueueDepth = [u \in Users |-> 0]
    /\ lane = [u \in Users |-> <<>>]
    /\ jobs = <<>>
    /\ unhandled = {}
    /\ started = [u \in Users |-> <<>>]
    /\ completed = [u \in Users |-> <<>>]




(***************************************************************************)
(* ClaudeProvider.query: retry with backoff and model failover             *)
(***************************************************************************)

\* Stream messages received in one attempt.
MaxMsgs == 2

\* const MAX_RETRIES = 3;
MAX_RETRIES == 3

\* AbortSignal.timeout(2 * 60 * 60 * 1000), in hours
TIMEOUT_HOURS == 2

\* Hours a query is followed for.
MaxHours == 8

VARIABLES
    pc,            \* "idle" | "stream" (an attempt is in flight) | "backoff" | "done"
    attempt,       \* the loop variable of query()
    activeModel,   \* let activeModel = modelOverride ("none": undefined)
    configModel,   \* config.claudeModel
    textParts,     \* const textParts: string[]
    toolsUsed,     \* const toolsUsed: string[]
    returnedTools, \* the toolsUsed of the AgentResponse returned
    attemptOut,    \* history: the text and tools the current attempt produced, and
                   \* whether an earlier attempt produced any (lost)
    usage,         \* let usage: UsageStats | undefined, of the current attempt
    msgCount,      \* messages received in the current attempt
    aborted,       \* abortSignal.aborted
    response,      \* the AgentResponse returned, once pc = "done"
    notices,       \* the retry / failover notices passed to onProgress
    trace,         \* history: per attempt, the model it ran on and how it ended
    sentUsage,     \* history: the usage the backend reported in the current attempt
    ctrl,          \* the AbortController handed to the backend for the current attempt
    elapsed,       \* hours since query() was called
    timer          \* hours since the timeout signal of the current attempt was created

timeVars == <<elapsed, timer>>

accVars == <<toolsUsed, returnedTools, attemptOut>>

queryVars == <<pc, attempt, activeModel, configModel, textParts, usage, msgCount,
               aborted, response, notices, trace, sentUsage, ctrl, timeVars, accVars>>

\* Tool-use blocks of one assistant message.
ToolLists == {<<>>, <<"Bash">>}

RECURSIVE Dedup(_)
\* [...new Set(toolsUsed)]
Dedup(tools) ==
    IF tools = <<>> THEN <<>>
    ELSE LET front == SubSeq(tools, 1, Len(tools) - 1)
             last == tools[Len(tools)]
         IN IF \E i \in 1..Len(front) : front[i] = last
            THEN Dedup(front) ELSE Append(Dedup(front), last)

\* Mutant of ResetOnRetry: the accumulator is kept over the retry.
KeptOnRetry(acc) == acc

\* toolsUsed.length = 0; textParts.length = 0;
ResetOnRetry(acc) == <<>>

NoUsage == 0
Usages == {1, 2}

\* const FAILOVER_CHAIN
\* Mutant of FAILOVER_CHAIN: sonnet fails over back to opus.
FAILOVER_CHAIN_CYCLIC ==
    [m \in {"claude-opus-4-6", "claude-sonnet-4-6"} |->
        IF m = "claude-opus-4-6" THEN "claude-sonnet-4-6" ELSE "claude-opus-4-6"]

FAILOVER_CHAIN ==
    [m \in {"claude-opus-4-6", "claude-sonnet-4-6"} |->
        IF m = "claude-opus-4-6" THEN "claude-sonnet-4-6" ELSE "claude-haiku-4-5-20251001"]

\* function getFailoverModel(currentModel): FAILOVER_CHAIN[currentModel] || null
getFailoverModel(currentModel) ==
    IF currentModel \in DOMAIN FAILOVER_CHAIN THEN FAILOVER_CHAIN[currentModel] ELSE "none"

\* activeModel || config.claudeModel
CurrentModel == IF activeModel # "none" THEN activeModel ELSE configModel

\* A thrown value: its class (cls "string": a thrown non-Error), its name and
\* its message, a message being the set of the telling substrings it contains.
Err(cls, name, msg) == [cls |-> cls, name |-> name, msg |-> msg]

TimeoutError == Err("DOMException", "TimeoutError", {"timed out"})

Errors ==
    { Err("Error", "Error", {"429"}),
      Err("Error", "Error", {"Overloaded"}),
      Err("Error", "Error", {"auth"}),
      Err("Error", "Error", {"other"}),
      Err("string", "", {"503"}),
      TimeoutError }

\* error.message.toLowerCase()
ToLowerCase(msg) ==
    {IF t = "Overloaded" THEN "overloaded" ELSE IF t = "Rate Limit" THEN "rate limit" ELSE t
       : t \in msg}

RetryablePatterns ==
    {"429", "rate limit", "overloaded", "500", "502", "503", "529",
     "internal server error", "service unavailable"}

\* function isRetryableError(error)
isRetryableError(error) ==
    /\ error.cls \in {"Error", "DOMException"}
    /\ ToLowerCase(error.msg) \cap RetryablePatterns # {}

\* Mutant of ShouldRetry: one retry too many.
ShouldRetryOneMore(error, a) == isRetryableError(error) /\ a <= MAX_RETRIES

\* Mutant of ShouldRetry: every failure is retried.
ShouldRetryAnyError(error, a) == a < MAX_RETRIES

\* if (isRetryableError(error) && attempt < MAX_RETRIES)
ShouldRetry(error, a) == isRetryableError(error) /\ a < MAX_RETRIES

\* Mutant of FailoverDue: failover already on the first retry.
FailoverDueAtOnce(a) == a >= 0

\* if (attempt >= 1)
FailoverDue(a) == a >= 1

\* Mutant of UsageAtAttemptStart: usage declared outside the retry loop.
UsageCarried(u) == u

\* let usage: UsageStats | undefined;  (declared inside the try of each attempt)
UsageAtAttemptStart(u) == NoUsage

\* String.prototype.trim on the joined parts (each part is "x", "r" or " ").
RECURSIVE TrimLeft(_)
TrimLeft(t) == IF t # <<>> /\ Head(t) = " " THEN TrimLeft(Tail(t)) ELSE t

RECURSIVE TrimRight(_)
TrimRight(t) ==
    IF t # <<>> /\ t[Len(t)] = " " THEN TrimRight(SubSeq(t, 1, Len(t) - 1)) ELSE t

\* textParts.join("").trim()
JoinTrim(parts) == TrimRight(TrimLeft(parts))

NoError == [present |-> FALSE, msg |-> {}, hint |-> ""]

NoTextPlaceholder == <<"(no text reply)">>
StoppedReason == <<"query stopped">>
TimeoutReason == <<"query timed out (over 2 hours)">>

\* errMsg.includes(...) decides the remediation hint
Hint(msg) ==
    IF "API key" \in msg THEN "unset ANTHROPIC_API_KEY"
    ELSE IF msg \cap {"auth", "credential", "login"} # {} THEN "login again"
    ELSE ""

\* return { text: fullText || "(...)", sessionId, toolsUsed, usage, model }
SuccessResponse(parts, u, model) ==
    [text  |-> IF JoinTrim(parts) # <<>> THEN JoinTrim(parts) ELSE NoTextPlaceholder,
     error |-> NoError, usage |-> u, model |-> model]

\* Mutant of AbortResponse: the stop is reported as an error like the timeout.
AbortResponseAlwaysError(parts, isTimeout) ==
    [text  |-> IF JoinTrim(parts) # <<>> THEN JoinTrim(parts)
               ELSE IF isTimeout THEN TimeoutReason ELSE StoppedReason,
     error |-> [present |-> TRUE,
                msg |-> {IF isTimeout THEN TimeoutReason[1] ELSE StoppedReason[1]},
                hint |-> ""],
     usage |-> NoUsage, model |-> "none"]

\* if (isAborted || isTimeout) return { text: partial || reason, ...,
\*                                      ...(isTimeout ? { error: reason } : {}) }
AbortResponse(parts, isTimeout) ==
    [text  |-> IF JoinTrim(parts) # <<>> THEN JoinTrim(parts)
               ELSE IF isTimeout THEN TimeoutReason ELSE StoppedReason,
     error |-> IF isTimeout
               THEN [present |-> TRUE, msg |-> {TimeoutReason[1]}, hint |-> ""]
               ELSE NoError,
     usage |-> NoUsage, model |-> "none"]

\* return { text: "", sessionId, toolsUsed, error: errMsg + hint }
ErrorResponse(error) ==
    [text  |-> <<>>,
     error |-> [present |-> TRUE, msg |-> error.msg, hint |-> Hint(error.msg)],
     usage |-> NoUsage, model |-> "none"]

\* The return after the loop: error "retries exhausted"
ExhaustedResponse ==
    [text  |-> <<>>,
     error |-> [present |-> TRUE, msg |-> {"retries exhausted"}, hint |-> ""],
     usage |-> NoUsage, model |-> "none"]

NoResponse == [text |-> <<>>, error |-> NoError, usage |-> NoUsage, model |-> "none"]

\* How an attempt stands in the history: still running, ended normally, or
\* the value it threw.
Running == Err("running", "", {})
Ok == Err("ok", "", {})

EndTrace(how, wasAborted) ==
    [trace EXCEPT ![Len(trace)].end = how, ![Len(trace)].aborted = wasAborted]

\* abortController: (() => { const controller = new AbortController(); ...
\*   combinedSignal.addEventListener("abort", () => controller.abort(...), { once: true });
\*   return controller; })()
\* AbortSignal.any of an already aborted signal is born aborted and dispatches
\* no abort event, so the listener never runs ("deaf"); otherwise the listener
\* is armed ("live") and the controller is "aborted" once it has run.
NewController(signalAborted) == IF signalAborted THEN "deaf" ELSE "live"

\* The head of one loop iteration up to the for-await over the stream.
BeginAttempt(a, model) ==
    /\ pc' = "stream"
    /\ ctrl' = NewController(aborted)
    /\ timer' = 0
    /\ UNCHANGED elapsed
    /\ attempt' = a
    /\ usage' = UsageAtAttemptStart(usage)
    /\ sentUsage' = NoUsage
    /\ msgCount' = 0
    /\ trace' = Append(trace, [model |-> model, end |-> Running, aborted |-> FALSE])
    /\ attemptOut' = [text |-> <<>>, tools |-> <<>>,
                      lost |-> attemptOut.lost \/ attemptOut.text # <<>>
                                   \/ attemptOut.tools # <<>>]

\* async query(options): let activeModel = modelOverride, then the first loop
\* iteration. claudeModel is the configured default model, read from the
\* environment when the process starts.
StartQuery(modelOverride, claudeModel) ==
    /\ pc = "idle"
    /\ activeModel' = modelOverride
    /\ configModel' = claudeModel
    /\ BeginAttempt(0, IF modelOverride # "none" THEN modelOverride ELSE claudeModel)
    /\ UNCHANGED <<textParts, aborted, response, notices, toolsUsed, returnedTools>>

\* case "assistant": text pushed when not empty, the tool-use blocks pushed
RecvAssistant(text, tools) ==
    /\ pc = "stream"
    /\ ctrl # "aborted"
    /\ msgCount < MaxMsgs
    /\ msgCount' = msgCount + 1
    /\ textParts' = IF text # "" THEN Append(textParts, text) ELSE textParts
    /\ toolsUsed' = toolsUsed \o tools
    /\ attemptOut' = [attemptOut EXCEPT
                         !.text = IF text # "" THEN Append(@, text) ELSE @,
                         !.tools = @ \o tools]
    /\ UNCHANGED <<pc, attempt, activeModel, configModel, usage, aborted, response,
                   notices, trace, sentUsage, ctrl, timeVars, returnedTools>>

\* case "result": the result text only when no text came, usage = extractUsage(message)
RecvResult(result, u) ==
    /\ pc = "stream"
    /\ ctrl # "aborted"
    /\ msgCount < MaxMsgs
    /\ msgCount' = msgCount + 1
    /\ textParts' = IF result # "" /\ textParts = <<>> THEN <<result>> ELSE textParts
    /\ attemptOut' = [attemptOut EXCEPT
                         !.text = IF result # "" /\ @ = <<>> THEN <<result>> ELSE @]
    /\ usage' = u
    /\ sentUsage' = u
    /\ UNCHANGED <<pc, attempt, activeModel, configModel, aborted, response,
                   notices, trace, ctrl, timeVars, toolsUsed, returnedTools>>

\* The stream ends: the success return. A backend whose controller was
\* aborted ends its stream by throwing instead.
StreamEnd ==
    /\ pc = "stream"
    /\ ctrl # "aborted"
    /\ response' = SuccessResponse(textParts, usage, CurrentModel)
    /\ returnedTools' = Dedup(toolsUsed)
    /\ pc' = "done"
    /\ trace' = EndTrace(Ok, aborted)
    /\ UNCHANGED <<attempt, activeModel, configModel, textParts, usage, msgCount,
                   aborted, notices, sentUsage, ctrl, timeVars, toolsUsed, attemptOut>>

\* The attempt throws: the catch block, up to its return or its sleep. The
\* timeout reaches the backend through the armed listener only.
Throw(error) ==
    /\ pc = "stream"
    /\ error = TimeoutError => ctrl = "live"
    /\ trace' = EndTrace(error, aborted)
    /\ LET isTimeout == error.cls = "DOMException" /\ error.name = "TimeoutError"
       IN IF aborted \/ isTimeout
          THEN /\ response' = AbortResponse(textParts, isTimeout)
               /\ returnedTools' = Dedup(toolsUsed)
               /\ pc' = "done"
               /\ UNCHANGED <<activeModel, notices>>
          ELSE IF ShouldRetry(error, attempt)
          THEN /\ pc' = "backoff"
               /\ IF FailoverDue(attempt) /\ getFailoverModel(CurrentModel) # "none"
                  THEN /\ activeModel' = getFailoverModel(CurrentModel)
                       /\ notices' = notices \o <<"failover", "retry">>
                  ELSE /\ activeModel' = activeModel
                       /\ notices' = Append(notices, "retry")
               /\ UNCHANGED <<response, returnedTools>>
          ELSE /\ response' = ErrorResponse(error)
               /\ returnedTools' = toolsUsed
               /\ pc' = "done"
               /\ UNCHANGED <<activeModel, notices>>
    /\ UNCHANGED <<attempt, configModel, textParts, usage, msgCount, aborted, sentUsage,
                   ctrl, timeVars, toolsUsed, attemptOut>>

\* await sleep(delay) returns: accumulators reset, continue with attempt + 1
Wake ==
    /\ pc = "backoff"
    /\ textParts' = ResetOnRetry(textParts)
    /\ toolsUsed' = ResetOnRetry(toolsUsed)
    /\ IF attempt + 1 <= MAX_RETRIES
       THEN /\ BeginAttempt(attempt + 1, CurrentModel)
            /\ UNCHANGED <<response, returnedTools>>
       ELSE /\ response' = ExhaustedResponse
            /\ returnedTools' = ResetOnRetry(toolsUsed)
            /\ pc' = "done"
            /\ UNCHANGED <<attempt, usage, msgCount, trace, sentUsage, ctrl, timeVars,
                           attemptOut>>
    /\ UNCHANGED <<activeModel, configModel, aborted, notices>>

\* The caller aborts its signal (/stop) while the query is in progress: the
\* armed listener of an attempt in flight aborts that attempt's controller.
Abort ==
    /\ pc \in {"stream", "backoff"}
    /\ ~aborted
    /\ aborted' = TRUE
    /\ ctrl' = IF pc = "stream" /\ ctrl = "live" THEN "aborted" ELSE ctrl
    /\ UNCHANGED <<pc, attempt, activeModel, configModel, textParts, usage, msgCount,
                   response, notices, trace, sentUsage, timeVars, accVars>>

\* An hour passes while an attempt is in flight (a backoff sleep lasts at most
\* MAX_DELAY_MS, 30 seconds). An armed timeout fires no later than it is due,
\* and a backend whose controller was aborted throws without delay.
Tick ==
    /\ pc = "stream"
    /\ elapsed < MaxHours
    /\ ctrl # "aborted"
    /\ ctrl = "live" => timer < TIMEOUT_HOURS
    /\ elapsed' = elapsed + 1
    /\ timer' = timer + 1
    /\ UNCHANGED <<pc, attempt, activeModel, configModel, textParts, usage, msgCount,
                   aborted, response, notices, trace, sentUsage, ctrl, accVars>>

\* The timeout signal of the attempt fires: the armed listener aborts the
\* controller with the TimeoutError reason and the backend throws it.
TimerFires ==
    /\ timer = TIMEOUT_HOURS
    /\ Throw(TimeoutError)

QueryInit ==
    /\ pc = "idle"
    /\ attempt = 0
    /\ activeModel = "none"
    /\ configModel = "none"
    /\ textParts = <<>>
    /\ usage = NoUsage
    /\ msgCount = 0
    /\ aborted = FALSE
    /\ response = NoResponse
    /\ notices = <<>>
    /\ trace = <<>>
    /\ sentUsage = NoUsage
    /\ ctrl = "live"
    /\ elapsed = 0
    /\ timer = 0
    /\ toolsUsed = <<>>
    /\ returnedTools = <<>>
    /\ attemptOut = [text |-> <<>>, tools |-> <<>>, lost |-> FALSE]

(***************************************************************************)
(* handleQueryWithStreaming: throttled progress edits and the final update  *)
(***************************************************************************)

\* Progress events of one query.
MaxEvents == 3

\* Clock steps of half a second followed during one query.
MaxTicks == 4

\* if (!force && now - lastEditTime < 1500) return;
THROTTLE_MS == 1500

\* const startTime = Date.now()
StartTime == 3000

VARIABLES
    handler,       \* position of handleQueryWithStreaming: "query" (awaiting askClaude),
                   \* "final" | "errEdit" (awaiting safeEditText), "delete", "send", "done"
    streamedText,  \* let streamedText = "": the number of chunks it holds
    lastEditTime,  \* let lastEditTime = 0
    editPending,   \* let editPending = false
    currentTool,   \* let currentTool = ""
    now,           \* Date.now()
    wire,          \* requests to the front end in flight, in the order sent
    shown,         \* the text the progress message shows
    sent,          \* texts delivered as new messages
    outcome,       \* how askClaude returned: "none" | "ok" | "error" | "throw"
    editOk,        \* const editOk = await safeEditText(...): "none" | "true" | "false"
    events,        \* history: progress events received
    starts,        \* history: the times at which a flush issued an update
    tries,         \* history: per caller, the edit requests of its latest safeEditText
    asked          \* history: what the handler requested after a failed final edit

streamVars == <<handler, streamedText, lastEditTime, editPending, currentTool, now, wire,
                shown, sent, outcome, editOk, events, starts, tries, asked>>

Callers == {"flush", "final", "error"}

Text(kind, n, tool) == <<kind, n, tool>>
Placeholder == Text("placeholder", 0, "")
FinalText == Text("final", 0, "")
ErrorText == Text("error", 0, "")
Deleted == Text("deleted", 0, "")

\* displayText: the preview (the chunks so far) with the suffix naming the tool
DisplayText(text, tool) == Text("preview", text, tool)

\* Mutant of FlushPasses: the throttle test is dropped.
FlushPassesUnthrottled(force, t, last, pending) == ~pending

\* flushStream(force): if (!force && now - lastEditTime < 1500) return;
\*                     if (editPending) return;
FlushPasses(force, t, last, pending) ==
    /\ ~(~force /\ t - last < THROTTLE_MS)
    /\ ~pending

\* Mutant of AfterEdit: a failed formatted edit is not sent again.
AfterEditNoResend(parseMode, ok) == IF ok THEN "true" ELSE "false"

\* safeEditText after api.editMessageText settled: return true, the plain
\* resend in the catch when a parse mode was given, or return false.
AfterEdit(parseMode, ok) ==
    IF ok THEN "true" ELSE IF parseMode THEN "resend" ELSE "false"

\* A request: who sent it, the API method, whether it carries parse_mode and
\* whether the caller's catch sends it once more without.
Request(by, op, parseMode, text) ==
    [by |-> by, op |-> op, parseMode |-> parseMode, text |-> text]

PlainOf(req) == [req EXCEPT !.parseMode = FALSE]

\* flushStream() as called from the progress callback, up to its await.
FlushStream(force, text, tool) ==
    IF FlushPasses(force, now, lastEditTime, editPending)
    THEN /\ editPending' = TRUE
         /\ lastEditTime' = now
         /\ wire' = Append(wire, Request("flush", "edit", TRUE, DisplayText(text, tool)))
         /\ starts' = Append(starts, now)
         /\ tries' = [tries EXCEPT !["flush"] = <<>>]
    ELSE UNCHANGED <<editPending, lastEditTime, wire, starts, tries>>

\* The progress callback handed to askClaude: text_chunk
TextChunk ==
    /\ handler = "query"
    /\ events < MaxEvents
    /\ events' = events + 1
    /\ streamedText' = streamedText + 1
    /\ currentTool' = ""
    /\ FlushStream(FALSE, streamedText + 1, "")
    /\ UNCHANGED <<handler, now, shown, sent, outcome, editOk, asked>>

\* The progress callback handed to askClaude: tool_use
ToolUse(tool) ==
    /\ handler = "query"
    /\ events < MaxEvents
    /\ events' = events + 1
    /\ currentTool' = tool
    /\ FlushStream(FALSE, streamedText, tool)
    /\ UNCHANGED <<handler, streamedText, now, shown, sent, outcome, editOk, asked>>

\* askClaude returns or throws: the final edit of the progress message, or
\* the edit that shows the error (no parse mode).
QueryReturns(how) ==
    /\ handler = "query"
    /\ outcome' = how
    /\ IF how = "ok"
       THEN /\ handler' = "final"
            /\ wire' = Append(wire, Request("final", "edit", TRUE, FinalText))
            /\ tries' = [tries EXCEPT !["final"] = <<>>]
       ELSE /\ handler' = "errEdit"
            /\ wire' = Append(wire, Request("error", "edit", FALSE, ErrorText))
            /\ tries' = [tries EXCEPT !["error"] = <<>>]
    /\ UNCHANGED <<streamedText, lastEditTime, editPending, currentTool, now, shown, sent,
                   editOk, events, starts, asked>>

\* The front end handles the oldest request and its caller goes on.
Deliver(ok) ==
    /\ wire # <<>>
    /\ LET req == Head(wire)
           rest == Tail(wire)
           result == AfterEdit(req.parseMode, ok)
       IN /\ (req.op \in {"edit", "delete"} /\ shown = Deleted) => ~ok
          /\ shown' = IF ok /\ req.op = "edit" THEN req.text
                      ELSE IF ok /\ req.op = "delete" THEN Deleted ELSE shown
          /\ sent' = IF ok /\ req.op = "send" THEN sent \cup {req.text} ELSE sent
          /\ tries' = IF req.op = "edit"
                      THEN [tries EXCEPT ![req.by] =
                               Append(@, [parseMode |-> req.parseMode, ok |-> ok])]
                      ELSE tries
          /\ CASE req.op = "edit" /\ result = "resend" ->
                    \* safeEditText: api.editMessageText(chatId, messageId, text)
                    /\ wire' = Append(rest, PlainOf(req))
                    /\ UNCHANGED <<handler, editPending, editOk, asked>>
               [] req.op = "edit" /\ result # "resend" /\ req.by = "flush" ->
                    \* flushStream: editPending = false
                    /\ editPending' = FALSE
                    /\ wire' = rest
                    /\ UNCHANGED <<handler, editOk, asked>>
               [] req.op = "edit" /\ result = "true" /\ req.by = "final" ->
                    /\ editOk' = "true"
                    /\ handler' = "done"
                    /\ wire' = rest
                    /\ UNCHANGED <<editPending, asked>>
               [] req.op = "edit" /\ result = "false" /\ req.by = "final" ->
                    \* if (!editOk) { await ctx.api.deleteMessage(...).catch(() => {});
                    /\ editOk' = "false"
                    /\ handler' = "delete"
                    /\ wire' = Append(rest, Request("final", "delete", FALSE, FinalText))
                    /\ asked' = asked \cup {<<"delete", FinalText>>}
                    /\ UNCHANGED editPending
               [] req.op = "edit" /\ result # "resend" /\ req.by = "error" ->
                    /\ handler' = "done"
                    /\ wire' = rest
                    /\ UNCHANGED <<editPending, editOk, asked>>
               [] req.op = "delete" ->
                    \* await safeSendMessage(ctx, firstMsg): ctx.reply with Markdown
                    /\ handler' = "send"
                    /\ wire' = Append(rest, Request("final", "send", TRUE, FinalText))
                    /\ asked' = asked \cup {<<"send", FinalText>>}
                    /\ UNCHANGED <<editPending, editOk>>
               [] req.op = "send" /\ ok ->
                    /\ handler' = "done"
                    /\ wire' = rest
                    /\ UNCHANGED <<editPending, editOk, asked>>
               [] req.op = "send" /\ ~ok /\ req.parseMode ->
                    \* safeSendMessage: catch { await ctx.reply(text); }
                    /\ wire' = Append(rest, PlainOf(req))
                    /\ UNCHANGED <<handler, editPending, editOk, asked>>
               [] req.op = "send" /\ ~ok /\ ~req.parseMode ->
                    \* the plain reply throws: the catch of the handler
                    /\ handler' = "errEdit"
                    /\ wire' = Append(rest, Request("error", "edit", FALSE, ErrorText))
                    /\ UNCHANGED <<editPending, editOk, asked>>
    /\ UNCHANGED <<streamedText, lastEditTime, currentTool, now, outcome, events, starts>>

\* Half a second passes.
Clock ==
    /\ handler # "done"
    /\ now < StartTime + 500 * MaxTicks
    /\ now' = now + 500
    /\ UNCHANGED <<handler, streamedText, lastEditTime, editPending, currentTool, wire,
                   shown, sent, outcome, editOk, events, starts, tries, asked>>

StreamInit ==
    /\ handler = "query"
    /\ streamedText = 0
    /\ lastEditTime = 0
    /\ editPending = FALSE
    /\ currentTool = ""
    /\ now = StartTime
    /\ wire = <<>>
    /\ shown = Placeholder
    /\ sent = {}
    /\ outcome = "none"
    /\ editOk = "none"
    /\ events = 0
    /\ starts = <<>>
    /\ tries = [c \in Callers |-> <<>>]
    /\ asked = {}

(***************************************************************************)
(* storage/db.ts: sessions and the active session of a user                *)
(***************************************************************************)

\* config.sessionTimeoutHours (SESSION_TIMEOUT_HOURS of the environment), in
\* hours; a short timeout keeps the clock small.
sessionTimeoutHours == 1

\* Hours the session store is followed for.
MaxClock == 3

\* getRecentSessions(userId, limit = 5)
RECENT_LIMIT == 5

VARIABLES
    sessions,        \* table sessions, PRIMARY KEY (user_id, session_id)
    activeSessions,  \* table active_sessions, PRIMARY KEY user_id
    dbNow,           \* Date.now(), in hours
    lastOp,          \* history: the last operation, its arguments and its result
    everCreated      \* history: the <<user, session>> keys createSession was called with

sessionVars == <<sessions, activeSessions, dbNow, lastOp, everCreated>>

\* The session handles of a user (handles are unique over all users).
SessionIds(u) == IF u = 1 THEN {"s1", "s2"} ELSE {"s3"}
Titles == {"t1", "t2"}

\* getActiveSession returning null
NoSession == [sessionId |-> "none", title |-> "none"]

Op(op, u, sid, title, result, idle) ==
    [op |-> op, user |-> u, sessionId |-> sid, title |-> title, result |-> result,
     idle |-> idle]

\* INSERT OR REPLACE INTO sessions: PRIMARY KEY (user_id, session_id)
InsertOrReplaceSession(tbl, row) ==
    {r \in tbl : ~(r.user = row.user /\ r.sessionId = row.sessionId)} \cup {row}

\* Mutant of InsertOrReplaceActive: the table has no key on the user.
InsertActiveUnkeyed(tbl, row) == tbl \cup {row}

\* INSERT OR REPLACE INTO active_sessions: PRIMARY KEY user_id
InsertOrReplaceActive(tbl, row) == {r \in tbl : r.user # row.user} \cup {row}

\* SELECT s.* FROM sessions s JOIN active_sessions a ON s.user_id = a.user_id
\*   AND s.session_id = a.session_id WHERE s.user_id = ?
JoinActive(u) ==
    {r \in sessions :
        /\ r.user = u
        /\ \E a \in activeSessions : a.user = u /\ a.sessionId = r.sessionId}

\* Mutant of Expired: a session never times out.
ExpiredNever(hoursSinceActive) == FALSE

\* if (hoursSinceActive > config.sessionTimeoutHours)
Expired(hoursSinceActive) == hoursSinceActive > sessionTimeoutHours

\* Mutant of clearActiveSession: the session goes with its pointer.
clearActiveSessionHard(db, u) ==
    [sessions |-> {r \in db.sessions : r.user # u},
     active   |-> {a \in db.active : a.user # u}]

\* clearActiveSession(userId): DELETE FROM active_sessions WHERE user_id = ?
clearActiveSession(db, u) ==
    [sessions |-> db.sessions,
     active   |-> {a \in db.active : a.user # u}]

\* UPDATE sessions SET last_active_at = ? WHERE user_id = ? AND session_id = ?
touchSession(tbl, u, sid, t) ==
    {IF r.user = u /\ r.sessionId = sid THEN [r EXCEPT !.lastActiveAt = t] ELSE r
       : r \in tbl}

\* SELECT * FROM sessions WHERE user_id = ? ORDER BY last_active_at DESC LIMIT ?
\* The lists the query may return: the order of rows of equal last_active_at
\* is not determined.
getRecentSessions(tbl, u, limit) ==
    LET mine == {r \in tbl : r.user = u}
        n == IF Cardinality(mine) < limit THEN Cardinality(mine) ELSE limit
    IN {q \in [1..n -> mine] :
           /\ \A i, j \in 1..n : i < j =>
                  /\ q[i] # q[j]
                  /\ q[i].lastActiveAt >= q[j].lastActiveAt
           /\ \A r \in mine : (\A i \in 1..n : q[i] # r) =>
                  \A i \in 1..n : q[i].lastActiveAt >= r.lastActiveAt}

\* What getActiveSession(userId) returns: null without a joined row or when
\* the session has expired, the session otherwise.
ActiveResult(u) ==
    IF JoinActive(u) = {} THEN NoSession
    ELSE LET row == CHOOSE r \in JoinActive(u) : TRUE
         IN IF Expired(dbNow - row.lastActiveAt) THEN NoSession
            ELSE [sessionId |-> row.sessionId, title |-> row.title]

\* createSession(userId, sessionId, title)
CreateSession(u, sid, title) ==
    /\ sessions' = InsertOrReplaceSession(sessions,
                       [user |-> u, sessionId |-> sid, lastActiveAt |-> dbNow,
                        title |-> title])
    /\ activeSessions' = InsertOrReplaceActive(activeSessions,
                                              [user |-> u, sessionId |-> sid])
    /\ everCreated' = everCreated \cup {<<u, sid>>}
    /\ lastOp' = Op("create", u, sid, title, NoSession, -1)
    /\ UNCHANGED dbNow

\* getActiveSession(userId)
GetActiveSession(u) ==
    /\ IF JoinActive(u) = {}
       THEN /\ lastOp' = Op("get", u, "none", "none", NoSession, -1)
            /\ UNCHANGED <<sessions, activeSessions>>
       ELSE LET row == CHOOSE r \in JoinActive(u) : TRUE
                hoursSinceActive == dbNow - row.lastActiveAt
                db == clearActiveSession([sessions |-> sessions,
                                          active |-> activeSessions], u)
            IN /\ lastOp' = Op("get", u, row.sessionId, row.title, ActiveResult(u),
                               hoursSinceActive)
               /\ IF Expired(hoursSinceActive)
                  THEN /\ sessions' = db.sessions
                       /\ activeSessions' = db.active
                  ELSE UNCHANGED <<sessions, activeSessions>>
    /\ UNCHANGED <<dbNow, everCreated>>

\* touchSession(userId, sessionId)
TouchSession(u, sid) ==
    /\ sessions' = touchSession(sessions, u, sid, dbNow)
    /\ lastOp' = Op("touch", u, sid, "none", NoSession, -1)
    /\ UNCHANGED <<activeSessions, dbNow, everCreated>>

\* clearActiveSession(userId), as called by /new
ClearActiveSession(u) ==
    /\ LET db == clearActiveSession([sessions |-> sessions, active |-> activeSessions], u)
       IN /\ sessions' = db.sessions
          /\ activeSessions' = db.active
    /\ lastOp' = Op("clear", u, "none", "none", NoSession, -1)
    /\ UNCHANGED <<dbNow, everCreated>>

\* setActiveSession(userId, sessionId)
SetActiveSession(u, sid) ==
    /\ activeSessions' = InsertOrReplaceActive(activeSessions,
                                              [user |-> u, sessionId |-> sid])
    /\ sessions' = touchSession(sessions, u, sid, dbNow)
    /\ lastOp' = Op("setActive", u, sid, "none", NoSession, -1)
    /\ UNCHANGED <<dbNow, everCreated>>

\* An hour passes.
Hour ==
    /\ dbNow < MaxClock
    /\ dbNow' = dbNow + 1
    /\ lastOp' = Op("hour", 0, "none", "none", NoSession, -1)
    /\ UNCHANGED <<sessions, activeSessions, everCreated>>

SessionInit ==
    /\ sessions = {}
    /\ activeSessions = {}
    /\ dbNow = 0
    /\ lastOp = Op("init", 0, "none", "none", NoSession, -1)
    /\ everCreated = {}

(***************************************************************************)
(* storage/db.ts: memory facts                                             *)
(***************************************************************************)

\* Fact operations followed.
MaxFactOps == 3

\* The latest value of Date.now() followed.
MaxFactClock == 3

VARIABLES
    facts,       \* table memory_facts
    nextId,      \* the next AUTOINCREMENT id
    factNow,     \* Date.now()
    factOps,     \* operations called so far
    before,      \* history: the table before the last operation
    lastFactOp   \* history: the last operation, its arguments and the ids it returned

factVars == <<facts, nextId, factNow, factOps, before, lastFactOp>>

FactTexts == {"x", "xy"}
Keywords == {"x", "y"}
Categories == {"general", "project"}

FactOp(op, u, arg, category, returned) ==
    [op |-> op, user |-> u, arg |-> arg, category |-> category, returned |-> returned,
     at |-> factNow]

\* The tokens the full-text index holds for a text.
Tokens(text) == {text}

\* text LIKE '%keyword%'
Like(text, keyword) ==
    \/ text = keyword
    \/ text = "xy" /\ keyword \in {"x", "y"}

\* Mutant of Existing: the duplicate check finds nothing.
ExistingNone(tbl, u, fact) == {}

\* saveFact: SELECT id FROM memory_facts WHERE user_id = ? AND fact = ?
Existing(tbl, u, fact) == {r \in tbl : r.user = u /\ r.fact = fact}

\* searchFacts: ... WHERE memory_facts_fts MATCH ? AND m.user_id = ? (the index
\* covers the columns fact and category)
FtsRows(tbl, u, keyword) ==
    {r \in tbl : r.user = u /\ keyword \in Tokens(r.fact) \cup Tokens(r.category)}

\* searchFacts: ... WHERE user_id = ? AND (fact LIKE ? OR category LIKE ?)
LikeRows(tbl, u, keyword) ==
    {r \in tbl : r.user = u /\ (Like(r.fact, keyword) \/ Like(r.category, keyword))}

\* touchFactsAccess(factIds): UPDATE memory_facts SET last_accessed_at = ?,
\*   access_count = access_count + 1 WHERE id IN (...)
touchFactsAccess(tbl, factIds, t) ==
    {IF r.id \in factIds
       THEN [r EXCEPT !.lastAccessedAt = t, !.accessCount = r.accessCount + 1]
       ELSE r
       : r \in tbl}

Ids(rows) == {r.id : r \in rows}

\* saveFact(userId, fact, category)
SaveFact(u, fact, category) ==
    /\ factOps < MaxFactOps
    /\ factOps' = factOps + 1
    /\ before' = facts
    /\ IF Existing(facts, u, fact) # {}
       THEN LET existing == CHOOSE r \in Existing(facts, u, fact) : TRUE
            IN /\ facts' = {IF r.id = existing.id
                              THEN [r EXCEPT !.category = category, !.updatedAt = factNow]
                              ELSE r
                              : r \in facts}
               /\ lastFactOp' = FactOp("save", u, fact, category, {existing.id})
               /\ UNCHANGED nextId
       ELSE /\ facts' = facts \cup
                  {[id |-> nextId, user |-> u, fact |-> fact, category |-> category,
                    createdAt |-> factNow, updatedAt |-> factNow,
                    lastAccessedAt |-> 0, accessCount |-> 0]}
            /\ nextId' = nextId + 1
            /\ lastFactOp' = FactOp("save", u, fact, category, {nextId})
    /\ UNCHANGED factNow

\* searchFacts(userId, keyword)
SearchFacts(u, keyword) ==
    /\ factOps < MaxFactOps
    /\ factOps' = factOps + 1
    /\ before' = facts
    /\ LET ftsRows == FtsRows(facts, u, keyword)
           likeRows == LikeRows(facts, u, keyword)
           rows == IF ftsRows # {} THEN ftsRows ELSE likeRows
       IN /\ facts' = touchFactsAccess(facts, Ids(rows), factNow)
          /\ lastFactOp' = FactOp("search", u, keyword, "", Ids(rows))
    /\ UNCHANGED <<nextId, factNow>>

\* getUserFacts(userId)
GetUserFacts(u) ==
    /\ factOps < MaxFactOps
    /\ factOps' = factOps + 1
    /\ before' = facts
    /\ lastFactOp' = FactOp("list", u, "", "", Ids({r \in facts : r.user = u}))
    /\ UNCHANGED <<facts, nextId, factNow>>

\* deleteFact(userId, factId), for the id of a stored fact (of any user)
DeleteFact(u, factId) ==
    /\ factOps < MaxFactOps
    /\ factId \in Ids(facts)
    /\ factOps' = factOps + 1
    /\ before' = facts
    /\ facts' = {r \in facts : ~(r.id = factId /\ r.user = u)}
    /\ lastFactOp' = FactOp("delete", u, "", "", {factId})
    /\ UNCHANGED <<nextId, factNow>>

\* Date.now() advances.
FactClock ==
    /\ factNow < MaxFactClock
    /\ factNow' = factNow + 1
    /\ UNCHANGED <<facts, nextId, factOps, before, lastFactOp>>

FactInit ==
    /\ facts = {}
    /\ nextId = 1
    /\ factNow = 1
    /\ factOps = 0
    /\ before = {}
    /\ lastFactOp = [op |-> "init", user |-> 0, arg |-> "", category |-> "",
                     returned |-> {}, at |-> 0]

(***************************************************************************)
(* memory.ts: the relevance score of a fact                                *)
(***************************************************************************)

\* The greatest number of days since the update of a scored fact.
MaxDays == 102

\* The greatest access count of a scored fact.
MaxAccess == 11

\* const DECAY_THRESHOLD_DAYS = 30
DECAY_THRESHOLD_DAYS == 30

VARIABLES
    scored,     \* the fact handed to scoreFact, times in days ("none" before the call)
    scoreNow,   \* Date.now() of the call, in days
    score       \* what scoreFact returned, in half points

scoreVars == <<scored, scoreNow, score>>

NoFact == [updatedAt |-> 0, lastAccessedAt |-> 0, accessCount |-> 0]

Max(a, b) == IF a >= b THEN a ELSE b
Min(a, b) == IF a <= b THEN a ELSE b

\* const daysSinceUpdate = (now - fact.updatedAt) / (1000 * 60 * 60 * 24)
DaysSinceUpdate(fact, t) == t - fact.updatedAt

\* const daysSinceAccess = fact.lastAccessedAt > 0 ? (now - fact.lastAccessedAt) / ... :
\*                         daysSinceUpdate
DaysSinceAccess(fact, t) ==
    IF fact.lastAccessedAt > 0 THEN t - fact.lastAccessedAt ELSE DaysSinceUpdate(fact, t)

\* Mutant of Decayed: no decay penalty.
DecayedNever(daysSinceAccess) == FALSE

\* if (daysSinceAccess > DECAY_THRESHOLD_DAYS)
Decayed(daysSinceAccess) == daysSinceAccess > DECAY_THRESHOLD_DAYS

\* function scoreFact(fact): the score in half points, so that score *= 0.5
\* stays a whole number.
scoreFact(fact, t) ==
    LET base == Max(0, 100 - DaysSinceUpdate(fact, t))
        boosted == base + Min(fact.accessCount * 5, 50)
    IN IF Decayed(DaysSinceAccess(fact, t)) THEN boosted ELSE 2 * boosted

\* scoreFact(fact) is called at time t for a fact updated and accessed before.
ScoreFact(fact, t) ==
    /\ scoreNow = 0
    /\ scored' = fact
    /\ scoreNow' = t
    /\ score' = scoreFact(fact, t)

ScoreInit ==
    /\ scored = NoFact
    /\ scoreNow = 0
    /\ score = 0

(***************************************************************************)
(* memory-consolidation.ts: consolidateUserFacts                           *)
(***************************************************************************)

\* if (facts.length < 10) return: fewer facts are not consolidated
MIN_FACTS == 10

\* Merge groups in one completion response.
MaxGroups == 2

VARIABLES
    cpc,        \* consolidateUserFacts: "idle" | "awaiting" (the completion) | "merging"
                \* (before a group's saveFact) | "deleting" | "done" | "crashed"
    resp,       \* the completion response
    todo,       \* result.merge from the group being applied on
    dels,       \* delete_ids of the group being applied still to delete
    atStart     \* history: the table when consolidateUserFacts was called

consVars == <<cpc, resp, todo, dels, atStart>>

\* The user whose facts are consolidated.
ConsUser == 1

SeedTexts == <<"f1", "f2", "f3", "f4", "f5", "f6", "f7", "f8", "f9", "f10">>

Group(newFact, deleteIds) ==
    [new_fact |-> newFact, category |-> "general", delete_ids |-> deleteIds]

\* Merge groups a completion may propose: a merge into a new text, a merge into
\* the text of a fact it supersedes, groups the loop skips, an unknown id, and
\* a merge into a text another user holds that names a fact of that user.
Groups ==
    { Group("m1", <<1, 2>>), Group("f3", <<3, 4>>), Group("", <<5>>),
      Group("m2", <<>>), Group("m2", <<6, 99>>), Group("m3", <<7, MIN_FACTS + 1>>) }

GroupLists == UNION {[1..n -> Groups] : n \in 1..MaxGroups}

\* The response of the completion call: it throws, or its text is empty, holds
\* no {...}, holds a {...} that JSON.parse rejects (groups: what the text was
\* meant to say), or parses, with or without merge groups.
Responses ==
    {[kind |-> k, groups |-> <<>>] : k \in {"throws", "empty", "noJson", "noMerge"}}
        \cup {[kind |-> k, groups |-> g] : k \in {"badJson", "merge"}, g \in GroupLists}

Malformed == {"throws", "empty", "noJson", "badJson"}

\* Mutant of MergesOf: the groups are taken from a text that does not parse.
MergesOfUnparsed(r) == r.groups

\* result.merge of a response that parsed; every other response returns or
\* throws before the loop over the groups.
MergesOf(r) == IF r.kind = "merge" THEN r.groups ELSE <<>>

\* saveFact(userId, fact, category, source) on a table
saveFact(tbl, id, u, fact, category, t) ==
    IF Existing(tbl, u, fact) # {}
    THEN LET existing == CHOOSE r \in Existing(tbl, u, fact) : TRUE
         IN {IF r.id = existing.id
               THEN [r EXCEPT !.category = category, !.updatedAt = t]
               ELSE r
               : r \in tbl}
    ELSE tbl \cup {[id |-> id, user |-> u, fact |-> fact, category |-> category,
                    createdAt |-> t, updatedAt |-> t, lastAccessedAt |-> 0,
                    accessCount |-> 0]}

\* Mutant of deleteFact: DELETE ... WHERE id = ? without the user.
deleteFactAnyUser(tbl, u, factId) == {r \in tbl : r.id # factId}

\* deleteFact(userId, factId) on a table
deleteFact(tbl, u, factId) == {r \in tbl : ~(r.id = factId /\ r.user = u)}

RECURSIVE SaveAll(_, _, _)
SaveAll(tbl, n, t) ==
    IF n = 0 THEN tbl
    ELSE saveFact(SaveAll(tbl, n - 1, t), n, ConsUser, SeedTexts[n], "general", t)

\* Another user, whose facts the consolidation of ConsUser has to leave alone.
OtherUser == 2

\* n facts of the user are saved before the consolidation runs, then two of
\* another user (ids n + 1 and n + 2).
Seed(n) ==
    /\ cpc = "idle"
    /\ facts = {}
    /\ facts' = saveFact(saveFact(SaveAll({}, n, factNow),
                                  n + 1, OtherUser, "m3", "general", factNow),
                         n + 2, OtherUser, "f7", "general", factNow)
    /\ nextId' = n + 3
    /\ UNCHANGED <<factNow, factOps, before, lastFactOp, consVars>>

\* consolidateUserFacts(userId) up to the completion call
StartConsolidation ==
    /\ cpc = "idle"
    /\ atStart' = facts
    /\ cpc' = IF Cardinality({r \in facts : r.user = ConsUser}) < MIN_FACTS
              THEN "done" ELSE "awaiting"
    /\ UNCHANGED <<resp, todo, dels, factVars>>

\* The completion call settles: the returns before the loop, or the loop begins.
Respond(r) ==
    /\ cpc = "awaiting"
    /\ resp' = r
    /\ todo' = MergesOf(r)
    /\ cpc' = IF MergesOf(r) = <<>> THEN "done" ELSE "merging"
    /\ UNCHANGED <<dels, atStart, factVars>>

\* One iteration of the loop over result.merge up to its saveFact.
ApplySave ==
    /\ cpc = "merging"
    /\ IF todo = <<>>
       THEN /\ cpc' = "done"
            /\ UNCHANGED <<todo, dels, factVars>>
       ELSE LET group == Head(todo)
            IN IF group.new_fact = "" \/ group.delete_ids = <<>>
               THEN /\ todo' = Tail(todo)
                    /\ UNCHANGED <<cpc, dels, factVars>>
               ELSE /\ facts' = saveFact(facts, nextId, ConsUser, group.new_fact,
                                         group.category, factNow)
                    /\ nextId' = IF Existing(facts, ConsUser, group.new_fact) # {}
                                 THEN nextId ELSE nextId + 1
                    /\ dels' = group.delete_ids
                    /\ cpc' = "deleting"
                    /\ UNCHANGED <<todo, factNow, factOps, before, lastFactOp>>
    /\ UNCHANGED <<resp, atStart>>

\* for (const id of group.delete_ids) deleteFact(userId, id)
ApplyDelete ==
    /\ cpc = "deleting"
    /\ IF dels = <<>>
       THEN /\ todo' = Tail(todo)
            /\ cpc' = "merging"
            /\ UNCHANGED <<dels, factVars>>
       ELSE /\ facts' = deleteFact(facts, ConsUser, Head(dels))
            /\ dels' = Tail(dels)
            /\ UNCHANGED <<cpc, todo, nextId, factNow, factOps, before, lastFactOp>>
    /\ UNCHANGED <<resp, atStart>>

\* The process dies; the table is what the statements run so far left.
Crash ==
    /\ cpc \in {"awaiting", "merging", "deleting"}
    /\ cpc' = "crashed"
    /\ UNCHANGED <<resp, todo, dels, atStart, factVars>>

ConsInit ==
    /\ cpc = "idle"
    /\ resp = [kind |-> "none", groups |-> <<>>]
    /\ todo = <<>>
    /\ dels = <<>>
    /\ atStart = {}

(***************************************************************************)
(* base-chat.ts: BaseChatProvider (the chat-completions providers)         *)
(***************************************************************************)

\* Queries made of the provider.
MaxQueries == 22

\* Content deltas of one response stream.
MaxChunks == 2

\* if (history.messages.length > 40) history.messages = history.messages.slice(-20)
HISTORY_MAX == 40
HISTORY_KEEP == 20

VARIABLES
    chatPc,         \* query: "idle" | "fetching" (await fetch) | "streaming" (reader.read)
    chatSessions,   \* this.sessions: session id -> [exists, messages]
    chatCur,        \* resolvedSessionId of the running query
    fullText,       \* parseSSEStream: the text accumulated from the deltas
    chatResp,       \* the AgentResponse the last query returned
    chatQueries,    \* queries started
    fetches,        \* history: fetch calls of the running query
    cutText,        \* history: the text accumulated when the query was cut short
    chatCause       \* history: what ended the last query

chatVars ==
    <<chatPc, chatSessions, chatCur, fullText, chatResp, chatQueries, fetches,
      cutText, chatCause>>

ChatIds == {"a", "b"}

\* Text is a sequence of characters; a delta is one character.
Deltas == {"x", " "}

\* "⏹ Query đã bị dừng."
StopNotice == <<"stopped">>

\* `(${this.name} không trả lời text)`
NoTextNotice == <<"no-text">>

\* HTTP statuses of the backend: ok, rate limit, server error, overload, auth
Statuses == {200, 429, 500, 529, 401}

Retryable == {429, 500, 529}

RECURSIVE TrimStart(_)
TrimStart(s) == IF s # <<>> /\ Head(s) = " " THEN TrimStart(Tail(s)) ELSE s

RECURSIVE TrimEnd(_)
TrimEnd(s) ==
    IF s # <<>> /\ s[Len(s)] = " " THEN TrimEnd(SubSeq(s, 1, Len(s) - 1)) ELSE s

\* String.prototype.trim
Trim(s) == TrimEnd(TrimStart(s))

\* Array.prototype.slice(-n)
SliceLast(s, n) == IF Len(s) <= n THEN s ELSE SubSeq(s, Len(s) - n + 1, Len(s))

\* Mutant of TrimHistory: the history is never trimmed.
TrimHistoryNever(messages) == messages

\* Trim history nếu quá dài
TrimHistory(messages) ==
    IF Len(messages) > HISTORY_MAX THEN SliceLast(messages, HISTORY_KEEP) ELSE messages

\* A stored message: its role and the number of the exchange of its session
\* that pushed it (its content is the prompt or the answer of that exchange).
Message(role, n) == [role |-> role, n |-> n]

NextExchange(messages) == IF messages = <<>> THEN 1 ELSE messages[Len(messages)].n + 1

\* getOrCreateSession(sessionId): an unknown or missing id gets an empty history
getOrCreateSession(map, id) ==
    IF map[id].exists THEN map
    ELSE [map EXCEPT ![id] = [exists |-> TRUE, messages |-> <<>>]]

\* query(options) up to the fetch; sessionId "none" is an absent sessionId, for
\* which a fresh `session-...` id is made.
ChatStart(sessionId) ==
    /\ chatPc = "idle"
    /\ chatQueries < MaxQueries
    /\ \E id \in ChatIds :
         /\ IF sessionId = "none" THEN ~chatSessions[id].exists ELSE id = sessionId
         /\ chatSessions' = getOrCreateSession(chatSessions, id)
         /\ chatCur' = id
    /\ chatPc' = "fetching"
    /\ chatQueries' = chatQueries + 1
    /\ fetches' = 1
    /\ fullText' = <<>>
    /\ cutText' = <<>>
    /\ chatCause' = "running"
    /\ UNCHANGED chatResp

\* query: catch (error)
ChatCatch(userAborted, errMsg, cause) ==
    /\ chatResp' = IF userAborted
                   THEN [text |-> StopNotice, error |-> ""]
                   ELSE [text |-> <<>>, error |-> errMsg]
    /\ chatPc' = "idle"
    /\ cutText' = fullText
    /\ chatCause' = cause
    /\ UNCHANGED <<chatSessions, chatCur, fullText, chatQueries, fetches>>

\* fetch resolves: if (!response.ok) throw, else the stream is read
FetchResponds(status) ==
    /\ chatPc = "fetching"
    /\ IF status = 200
       THEN /\ chatPc' = "streaming"
            /\ UNCHANGED <<chatSessions, chatCur, fullText, chatResp, chatQueries,
                           fetches, cutText, chatCause>>
       ELSE ChatCatch(FALSE, "API error",
                      IF status \in Retryable THEN "retryable" ELSE "fatal")

\* fetch rejects (connection refused, reset)
FetchFails ==
    /\ chatPc = "fetching"
    /\ ChatCatch(FALSE, "fetch failed", "retryable")

\* parseSSEStream: a data line with delta.content
ChatChunk(delta) ==
    /\ chatPc = "streaming"
    /\ Len(fullText) < MaxChunks
    /\ fullText' = Append(fullText, delta)
    /\ UNCHANGED <<chatPc, chatSessions, chatCur, chatResp, chatQueries, fetches,
                   cutText, chatCause>>

\* reader.read() returns done: the exchange is stored and the text returned
ChatStreamDone ==
    /\ chatPc = "streaming"
    /\ LET text == Trim(fullText)
           messages == chatSessions[chatCur].messages
           n == NextExchange(messages)
       IN /\ chatSessions' =
                 [chatSessions EXCEPT ![chatCur].messages =
                     TrimHistory(messages \o <<Message("user", n), Message("assistant", n)>>)]
          /\ chatResp' = [text |-> IF text = <<>> THEN NoTextNotice ELSE text,
                          error |-> ""]
    /\ chatPc' = "idle"
    /\ chatCause' = "done"
    /\ UNCHANGED <<chatCur, fullText, chatQueries, fetches, cutText>>

\* The caller's abortSignal fires: the pending fetch or read rejects.
ChatAbort ==
    /\ chatPc \in {"fetching", "streaming"}
    /\ ChatCatch(TRUE, "AbortError", "abort")

\* AbortSignal.timeout(2 h) fires: the pending fetch or read rejects.
ChatTimeout ==
    /\ chatPc \in {"fetching", "streaming"}
    /\ ChatCatch(FALSE, "TimeoutError", "timeout")

ChatInit ==
    /\ chatPc = "idle"
    /\ chatSessions = [id \in ChatIds |-> [exists |-> FALSE, messages |-> <<>>]]
    /\ chatCur = "a"
    /\ fullText = <<>>
    /\ chatResp = [text |-> <<>>, error |-> ""]
    /\ chatQueries = 0
    /\ fetches = 0
    /\ cutText = <<>>
    /\ chatCause = "none"

(***************************************************************************)
(* middleware.ts: rateLimitMiddleware                                      *)
(***************************************************************************)

\* Updates received by the bot.
MaxUpdates == 7

\* Times Date.now() advances.
MaxAdvances == 3

RATE_LIMIT == 5
RATE_WINDOW_MS == 60000

VARIABLES
    userMessageTimestamps,  \* user -> timestamps kept (no entry: <<>>)
    rlNow,                  \* Date.now()
    rlUpdates,              \* updates received
    rlAdvances,             \* times the clock advanced
    accepted,               \* history: user -> times of the updates passed to next()
    rlLast                  \* history: the last update and what the middleware did

rateVars == <<userMessageTimestamps, rlNow, rlUpdates, rlAdvances, accepted, rlLast>>

\* The clock advances by just under half a window or by half a window.
Advances == {RATE_WINDOW_MS \div 2 - 1, RATE_WINDOW_MS \div 2}

\* timestamps.filter((t) => now - t < RATE_WINDOW_MS)
Recent(timestamps, t) == SelectSeq(timestamps, LAMBDA x : t - x < RATE_WINDOW_MS)

\* Mutant of OverLimit: the limit is never reached.
OverLimitNever(recent) == FALSE

\* if (recent.length >= RATE_LIMIT)
OverLimit(recent) == Len(recent) >= RATE_LIMIT

\* The middleware runs for an update of user u.
RateLimit(u) ==
    /\ rlUpdates < MaxUpdates
    /\ rlUpdates' = rlUpdates + 1
    /\ LET recent == Recent(userMessageTimestamps[u], rlNow)
       IN IF OverLimit(recent)
          THEN /\ rlLast' = [user |-> u, at |-> rlNow, did |-> "reply"]
               /\ UNCHANGED <<userMessageTimestamps, accepted>>
          ELSE /\ userMessageTimestamps' =
                      [userMessageTimestamps EXCEPT ![u] = Append(recent, rlNow)]
               /\ accepted' = [accepted EXCEPT ![u] = Append(@, rlNow)]
               /\ rlLast' = [user |-> u, at |-> rlNow, did |-> "next"]
    /\ UNCHANGED <<rlNow, rlAdvances>>

\* setInterval(..., CLEANUP_INTERVAL_MS): old timestamps and idle users go
RateCleanup ==
    /\ \E u \in Users : Recent(userMessageTimestamps[u], rlNow) # userMessageTimestamps[u]
    /\ userMessageTimestamps' =
           [u \in Users |-> Recent(userMessageTimestamps[u], rlNow)]
    /\ UNCHANGED <<rlNow, rlUpdates, rlAdvances, accepted, rlLast>>

RateClock(d) ==
    /\ rlAdvances < MaxAdvances
    /\ rlAdvances' = rlAdvances + 1
    /\ rlNow' = rlNow + d
    /\ UNCHANGED <<userMessageTimestamps, rlUpdates, accepted, rlLast>>

RateInit ==
    /\ userMessageTimestamps = [u \in Users |-> <<>>]
    /\ rlNow = RATE_WINDOW_MS
    /\ rlUpdates = 0
    /\ rlAdvances = 0
    /\ accepted = [u \in Users |-> <<>>]
    /\ rlLast = [user |-> 0, at |-> 0, did |-> "none"]

(***************************************************************************)
(* The message handlers and the commands /stop, /new and /resume           *)
(* (src/src/bot/telegram.ts, src/src/bot/commands.ts). A message is a work *)
(* item of its user's lane (withUserLock above); the callback of the item  *)
(* runs handleQueryWithStreaming; the commands run outside the lanes.      *)
(***************************************************************************)

\* The number of messages the handlers take.
MaxBotItems == 3

VARIABLES
    cleanupOf,      \* per user and lane item: the item passes an onComplete callback
    run,            \* per user: where the running handleQueryWithStreaming stands
    activeQueries,  \* commands.ts activeQueries: user -> controller (0: no entry)
    abortedCtl,     \* the controllers abort() was called on, as <<user, controller>>
    chose,          \* per user: the /new or /resume choice made since the query started
    gotHandle,      \* per user: the handle askClaude returned to the user's last
                    \* query when that query was issued without a session and no
                    \* /new or /resume was handled since ("unset" otherwise)
    lastUpd         \* the update that arrived last at the rate limiter

botVars == <<cleanupOf, run, activeQueries, abortedCtl, chose, gotHandle, lastUpd>>

\* No handleQueryWithStreaming call of the user is running.
NoRun ==
    [pc |-> "idle", ctl |-> 0, cleanup |-> FALSE, session |-> "none", how |-> "none",
     saved |-> "none", calls |-> 0, expected |-> "unset"]

NoUpdate == [user |-> 0, kind |-> "none", inFlight |-> FALSE, ctl |-> 0]

\* The lane item of the user whose callback is running (0: none).
RunningItem(u) ==
    IF \E k \in 1..Len(lane[u]) : lane[u][k].st = "running"
    THEN CHOOSE k \in 1..Len(lane[u]) : lane[u][k].st = "running"
    ELSE 0

\* The sessionId of the user's active_sessions row ("none": no row).
ActivePointer(u) ==
    IF \E r \in activeSessions : r.user = u
    THEN (CHOOSE r \in activeSessions : r.user = u).sessionId
    ELSE "none"

\* Mutant of MapDelete: the entry stays.
MapDeleteNever(map, u) == map

\* activeQueries.delete(userId)
MapDelete(map, u) == [map EXCEPT ![u] = 0]

\* Mutant of StopTargets: /stop aborts the controllers of all users.
StopTargetsAll(map, u) == {<<v, map[v]>> : v \in {w \in Users : map[w] # 0}}

\* const controller = activeQueries.get(userId); if (controller) controller.abort()
StopTargets(map, u) == IF map[u] # 0 THEN {<<u, map[u]>>} ELSE {}

\* Mutant of SessionToSave: the handle of a fresh session is not stored.
SessionToSaveNever(session, handle) == IF session # "none" THEN "touch" ELSE "none"

\* if (!session && response.sessionId) createSession(...)
\* else if (session) touchSession(...)
SessionToSave(session, handle) ==
    IF session = "none" /\ handle # "none" THEN "create"
    ELSE IF session # "none" THEN "touch"
    ELSE "none"

\* handleTextMessage (cleanup FALSE), handleDocument and handlePhoto (cleanup
\* TRUE: onComplete unlinks the temp file): withUserLock(userId, fn, onOverflow)
HandleMessage(u, cleanup) ==
    /\ Cardinality(Submitted) < MaxBotItems
    /\ Submit(u)
    /\ cleanupOf' = [cleanupOf EXCEPT ![u] = Append(@, cleanup)]
    /\ UNCHANGED <<run, activeQueries, abortedCtl, chose, gotHandle>>
    /\ UNCHANGED sessionVars

\* A microtask of the lanes; the callback of an item that starts runs up to
\* its first await (ctx.replyWithChatAction).
LaneJob ==
    /\ RunJob
    /\ UNCHANGED <<botVars, sessionVars>>

\* The callback ends without a query: ctx.reply throws and the callback
\* rejects, or (handleDocument, handlePhoto) the download throws inside the
\* try and the catch reports it.
CallbackFails(u, caught) ==
    /\ RunningItem(u) # 0
    /\ run[u].pc = "idle"
    /\ caught => cleanupOf[u][RunningItem(u)]
    /\ Finish(u, RunningItem(u), caught)
    /\ UNCHANGED <<botVars, sessionVars>>

\* handleQueryWithStreaming up to `await askClaude(...)`: the controller is
\* registered, the active session read, the query issued with its handle.
QueryStarts(u) ==
    /\ RunningItem(u) # 0
    /\ run[u].pc = "idle"
    /\ activeQueries' = [activeQueries EXCEPT ![u] = RunningItem(u)]
    /\ GetActiveSession(u)
    /\ run' = [run EXCEPT ![u] =
                  [NoRun EXCEPT !.pc = "asking", !.ctl = RunningItem(u),
                                !.cleanup = cleanupOf[u][RunningItem(u)],
                                !.session = ActiveResult(u).sessionId,
                                !.expected = gotHandle[u]]]
    /\ chose' = [chose EXCEPT ![u] = "unset"]
    /\ UNCHANGED <<cleanupOf, abortedCtl, gotHandle, lastUpd>>
    /\ UNCHANGED laneVars

\* askClaude returns a response without error (how "ok", with a session handle
\* or without one), a response with an error, or throws; on "ok" the session
\* is saved before the next await.
AskClaudeReturns(u, how, handle) ==
    /\ run[u].pc = "asking"
    /\ how = "ok" \/ handle = "none"
    /\ LET save == IF how = "ok" THEN SessionToSave(run[u].session, handle) ELSE "none"
       IN /\ run' = [run EXCEPT ![u].pc = "replying", ![u].how = how, ![u].saved = save]
          /\ gotHandle' = [gotHandle EXCEPT ![u] =
                               IF how = "ok" /\ run[u].session = "none" /\ handle # "none"
                               THEN handle ELSE "unset"]
          /\ CASE save = "create" -> CreateSession(u, handle, "t1")
               [] save = "touch" -> TouchSession(u, run[u].session)
               [] OTHER -> UNCHANGED sessionVars
    /\ UNCHANGED <<cleanupOf, activeQueries, abortedCtl, chose, lastUpd>>
    /\ UNCHANGED laneVars

\* handleQueryWithStreaming has returned: the callback of the lane item ends.
Returned(u) ==
    /\ run' = [run EXCEPT ![u] = NoRun]
    /\ Finish(u, run[u].ctl, TRUE)

\* finally { activeQueries.delete(userId); if (onComplete) await onComplete() }
Finally(u) ==
    /\ activeQueries' = MapDelete(activeQueries, u)
    /\ IF run[u].cleanup
       THEN /\ run' = [run EXCEPT ![u].pc = "finishing", ![u].calls = @ + 1]
            /\ UNCHANGED laneVars
       ELSE Returned(u)

\* The awaited messages to the chat have been sent. On an error response:
\* activeQueries.delete, onComplete, return (and the finally block after it);
\* otherwise (success, or the catch block after a throw) the finally block.
ReplySent(u) ==
    /\ run[u].pc = "replying"
    /\ IF run[u].how = "error" /\ run[u].cleanup
       THEN /\ activeQueries' = MapDelete(activeQueries, u)
            /\ run' = [run EXCEPT ![u].pc = "cleanup", ![u].calls = @ + 1]
            /\ UNCHANGED laneVars
       ELSE Finally(u)
    /\ UNCHANGED <<cleanupOf, abortedCtl, chose, gotHandle, lastUpd>>
    /\ UNCHANGED sessionVars

\* The promise of an awaited onComplete() settles: on the error path the
\* return runs the finally block, in the finally block the function returns.
OnCompleteSettles(u) ==
    /\ run[u].pc \in {"cleanup", "finishing"}
    /\ IF run[u].pc = "cleanup"
       THEN Finally(u)
       ELSE /\ Returned(u)
            /\ UNCHANGED activeQueries
    /\ UNCHANGED <<cleanupOf, abortedCtl, chose, gotHandle, lastUpd>>
    /\ UNCHANGED sessionVars

\* handleStop
HandleStop(u) ==
    /\ abortedCtl' = abortedCtl \cup StopTargets(activeQueries, u)
    /\ activeQueries' = IF activeQueries[u] # 0 THEN MapDelete(activeQueries, u)
                        ELSE activeQueries
    /\ UNCHANGED <<cleanupOf, run, chose, gotHandle>>
    /\ UNCHANGED <<laneVars, sessionVars>>

\* The choice is remembered from the start of a query on.
Chosen(u, choice) ==
    /\ chose' = [chose EXCEPT ![u] = IF run[u].pc = "asking" \/ @ # "unset"
                                     THEN choice ELSE @]
    /\ gotHandle' = [gotHandle EXCEPT ![u] = "unset"]

\* handleNew: clearActiveSession(userId)
HandleNew(u) ==
    /\ ClearActiveSession(u)
    /\ Chosen(u, "none")
    /\ UNCHANGED <<cleanupOf, run, activeQueries, abortedCtl>>
    /\ UNCHANGED laneVars

\* handleResumeCallback: setActiveSession(userId, sessionId), the session one
\* of the user's stored sessions (the buttons /resume showed)
HandleResumeCallback(u, sid) ==
    /\ \E r \in sessions : r.user = u /\ r.sessionId = sid
    /\ SetActiveSession(u, sid)
    /\ Chosen(u, sid)
    /\ UNCHANGED <<cleanupOf, run, activeQueries, abortedCtl>>
    /\ UNCHANGED laneVars

\* The update as it arrives: its kind, whether a query of its user is in
\* flight and that query's controller.
Upd(u, kind) ==
    [user |-> u, kind |-> kind, inFlight |-> run[u].pc = "asking", ctl |-> run[u].ctl]

\* rateLimitMiddleware runs before the handlers (bot.use before bot.command
\* and bot.on): an update over the limit is answered there and not handed on.
Limited(u, kind, handled) ==
    /\ RateLimit(u)
    /\ lastUpd' = Upd(u, kind)
    /\ IF rlLast'.did = "next"
       THEN handled
       ELSE UNCHANGED <<cleanupOf, run, activeQueries, abortedCtl, chose, gotHandle,
                        laneVars, sessionVars>>

\* The user whose updates pass the rate limiter.
Sender == CHOOSE u \in Users : \A v \in Users : u <= v

\* The session handles a new session of the user can get.
FreshHandles(u) == {s \in SessionIds(u) : <<u, s>> \notin everCreated}

\* The steps of the handlers that are no updates, for the given users, the
\* ways askClaude returns and the handles it returns.
BotProgress(users, hows, withHandle) ==
    \/ LaneJob
    \/ \E u \in users : \E caught \in BOOLEAN : CallbackFails(u, caught)
    \/ \E u \in users : QueryStarts(u)
    \/ \E u \in users : \E how \in hows :
       \E handle \in {"none"} \cup (IF withHandle THEN FreshHandles(u) ELSE {}) :
           AskClaudeReturns(u, how, handle)
    \/ \E u \in users : ReplySent(u)
    \/ \E u \in users : OnCompleteSettles(u)

BotInit ==
    /\ cleanupOf = [u \in Users |-> <<>>]
    /\ run = [u \in Users |-> NoRun]
    /\ activeQueries = [u \in Users |-> 0]
    /\ abortedCtl = {}
    /\ chose = [u \in Users |-> "unset"]
    /\ gotHandle = [u \in Users |-> "unset"]
    /\ lastUpd = NoUpdate

(***************************************************************************)
(* The specifications                                                      *)
(***************************************************************************)
vars == <<laneVars, queryVars, streamVars, sessionVars, factVars, scoreVars, consVars,
          chatVars, rateVars, botVars>>

nonLaneVars == <<queryVars, streamVars, sessionVars, factVars, scoreVars, consVars,
                 chatVars, rateVars, botVars>>
nonQueryVars == <<laneVars, streamVars, sessionVars, factVars, scoreVars, consVars,
                  chatVars, rateVars, botVars>>
nonStreamVars == <<laneVars, queryVars, sessionVars, factVars, scoreVars, consVars,
                   chatVars, rateVars, botVars>>
nonSessionVars == <<laneVars, queryVars, streamVars, factVars, scoreVars, consVars,
                    chatVars, rateVars, botVars>>
nonFactVars == <<laneVars, queryVars, streamVars, sessionVars, scoreVars, consVars,
                 chatVars, rateVars, botVars>>
nonScoreVars == <<laneVars, queryVars, streamVars, sessionVars, factVars, consVars,
                  chatVars, rateVars, botVars>>
nonConsVars == <<laneVars, queryVars, streamVars, sessionVars, factVars, scoreVars,
                 chatVars, rateVars, botVars>>
\* The consolidation writes the fact table.
nonFactConsVars == <<laneVars, queryVars, streamVars, sessionVars, scoreVars, chatVars,
                     rateVars, botVars>>
nonChatVars == <<laneVars, queryVars, streamVars, sessionVars, factVars, scoreVars,
                 consVars, rateVars, botVars>>
nonRateVars == <<laneVars, queryVars, streamVars, sessionVars, factVars, scoreVars,
                 consVars, chatVars, botVars>>
\* The handlers write the lanes and the session tables.
nonBotVars == <<queryVars, streamVars, factVars, scoreVars, consVars, chatVars, rateVars>>
nonBotRateVars == <<queryVars, streamVars, factVars, scoreVars, consVars, chatVars>>

QueryNext ==
    \/ \E modelOverride \in {"none", "claude-opus-4-6", "claude-sonnet-4-6",
                             "claude-haiku-4-5-20251001"} :
       \E claudeModel \in {"claude-opus-4-6", "other-model"} :
           StartQuery(modelOverride, claudeModel) /\ UNCHANGED nonQueryVars
    \/ \E text \in {"", "x", " "} : RecvAssistant(text, <<>>) /\ UNCHANGED nonQueryVars
    \/ \E result \in {"", "r"} : \E u \in Usages \cup {NoUsage} :
           RecvResult(result, u) /\ UNCHANGED nonQueryVars
    \/ StreamEnd /\ UNCHANGED nonQueryVars
    \/ \E error \in Errors : Throw(error) /\ UNCHANGED nonQueryVars
    \/ Wake /\ UNCHANGED nonQueryVars
    \/ Abort /\ UNCHANGED nonQueryVars

LaneNext ==
    \/ \E u \in Users : Submit(u) /\ UNCHANGED nonLaneVars
    \/ \E u \in Users : \E k \in 1..MaxSubmit : \E ok \in BOOLEAN :
           Finish(u, k, ok) /\ UNCHANGED nonLaneVars
    \/ RunJob /\ UNCHANGED nonLaneVars

StreamNext ==
    \/ TextChunk /\ UNCHANGED nonStreamVars
    \/ ToolUse("Bash") /\ UNCHANGED nonStreamVars
    \/ \E how \in {"ok", "error", "throw"} : QueryReturns(how) /\ UNCHANGED nonStreamVars
    \/ \E ok \in BOOLEAN : Deliver(ok) /\ UNCHANGED nonStreamVars
    \/ Clock /\ UNCHANGED nonStreamVars

SessionNext ==
    \/ \E u \in Users : \E sid \in SessionIds(u) : \E title \in Titles :
           CreateSession(u, sid, title) /\ UNCHANGED nonSessionVars
    \/ \E u \in Users : GetActiveSession(u) /\ UNCHANGED nonSessionVars
    \/ \E u \in Users : \E sid \in SessionIds(u) :
           TouchSession(u, sid) /\ UNCHANGED nonSessionVars
    \/ \E u \in Users : ClearActiveSession(u) /\ UNCHANGED nonSessionVars
    \/ \E u \in Users : \E sid \in SessionIds(u) :
           SetActiveSession(u, sid) /\ UNCHANGED nonSessionVars
    \/ Hour /\ UNCHANGED nonSessionVars

FactNext ==
    \/ \E u \in Users : \E fact \in FactTexts : \E category \in Categories :
           SaveFact(u, fact, category) /\ UNCHANGED nonFactVars
    \/ \E u \in Users : \E keyword \in Keywords :
           SearchFacts(u, keyword) /\ UNCHANGED nonFactVars
    \/ \E u \in Users : GetUserFacts(u) /\ UNCHANGED nonFactVars
    \/ \E u \in Users : \E factId \in 1..MaxFactOps :
           DeleteFact(u, factId) /\ UNCHANGED nonFactVars
    \/ FactClock /\ UNCHANGED nonFactVars

ScoreNext ==
    \E updatedAt \in 1..MaxDays + 1 :
    \E lastAccessedAt \in {0, 1, MaxDays - DECAY_THRESHOLD_DAYS, MaxDays + 1 - DECAY_THRESHOLD_DAYS,
                           MaxDays + 1} :
    \E accessCount \in 0..MaxAccess :
        /\ ScoreFact([updatedAt |-> updatedAt, lastAccessedAt |-> lastAccessedAt,
                      accessCount |-> accessCount], MaxDays + 1)
        /\ UNCHANGED nonScoreVars

ConsNext ==
    \/ \E n \in {MIN_FACTS - 1, MIN_FACTS} :
           Seed(n) /\ UNCHANGED nonFactConsVars
    \/ StartConsolidation /\ UNCHANGED nonFactConsVars
    \/ \E r \in Responses :
           Respond(r) /\ UNCHANGED nonFactConsVars
    \/ ApplySave /\ UNCHANGED nonFactConsVars
    \/ ApplyDelete /\ UNCHANGED nonFactConsVars
    \/ Crash /\ UNCHANGED nonFactConsVars

ChatNext ==
    \/ \E sessionId \in ChatIds \cup {"none"} : ChatStart(sessionId) /\ UNCHANGED nonChatVars
    \/ \E status \in Statuses : FetchResponds(status) /\ UNCHANGED nonChatVars
    \/ FetchFails /\ UNCHANGED nonChatVars
    \/ \E delta \in Deltas : ChatChunk(delta) /\ UNCHANGED nonChatVars
    \/ ChatStreamDone /\ UNCHANGED nonChatVars
    \/ ChatAbort /\ UNCHANGED nonChatVars
    \/ ChatTimeout /\ UNCHANGED nonChatVars

RateNext ==
    \/ \E u \in Users : RateLimit(u) /\ UNCHANGED nonRateVars
    \/ RateCleanup /\ UNCHANGED nonRateVars
    \/ \E d \in Advances : RateClock(d) /\ UNCHANGED nonRateVars

\* The handlers, every update handed on by the middlewares: messages and
\* /stop of all users, the messages of the first user documents (with an
\* onComplete callback), the other users sending one text message each.
BotNext ==
    \/ BotProgress(Users, {"ok", "error", "throw"}, FALSE) /\ UNCHANGED nonBotVars
    \/ \E u \in {v \in Users : v = Sender \/ lane[v] = <<>>} :
           HandleMessage(u, u = Sender) /\ UNCHANGED lastUpd /\ UNCHANGED nonBotVars
    \/ \E u \in Users : HandleStop(u) /\ UNCHANGED lastUpd /\ UNCHANGED nonBotVars

\* The handlers, every update handed on by the middlewares: text messages,
\* /new and /resume of one user.
ResumeNext ==
    \/ BotProgress({Sender}, {"ok", "error"}, TRUE) /\ UNCHANGED nonBotVars
    \/ HandleMessage(Sender, FALSE) /\ UNCHANGED lastUpd /\ UNCHANGED nonBotVars
    \/ HandleNew(Sender) /\ UNCHANGED lastUpd /\ UNCHANGED nonBotVars
    \/ \E sid \in SessionIds(Sender) :
           HandleResumeCallback(Sender, sid) /\ UNCHANGED lastUpd /\ UNCHANGED nonBotVars

\* The handlers behind the rate limiter: text messages and /stop of one user,
\* all within one window of the limiter.
StopNext ==
    \/ BotProgress({Sender}, {"ok", "error"}, FALSE)
           /\ UNCHANGED rateVars /\ UNCHANGED nonBotRateVars
    \/ Limited(Sender, "message", HandleMessage(Sender, FALSE)) /\ UNCHANGED nonBotRateVars
    \/ Limited(Sender, "stop", HandleStop(Sender)) /\ UNCHANGED nonBotRateVars

Init == LaneInit /\ QueryInit /\ StreamInit /\ SessionInit /\ FactInit /\ ScoreInit
        /\ ConsInit /\ ChatInit /\ RateInit /\ BotInit

LaneSpec == Init /\ [][LaneNext]_vars

QuerySpec == Init /\ [][QueryNext]_vars

StreamSpec == Init /\ [][StreamNext]_vars

SessionSpec == Init /\ [][SessionNext]_vars

FactSpec == Init /\ [][FactNext]_vars

\* query() with the clock running: the timeout is thrown when its timer is due.
TimedQueryNext ==
    \/ \E claudeModel \in {"claude-opus-4-6", "other-model"} :
           StartQuery("none", claudeModel) /\ UNCHANGED nonQueryVars
    \/ RecvAssistant("x", <<"Bash">>) /\ UNCHANGED nonQueryVars
    \/ StreamEnd /\ UNCHANGED nonQueryVars
    \/ \E error \in Errors \ {TimeoutError} : Throw(error) /\ UNCHANGED nonQueryVars
    \/ TimerFires /\ UNCHANGED nonQueryVars
    \/ Wake /\ UNCHANGED nonQueryVars
    \/ Abort /\ UNCHANGED nonQueryVars
    \/ Tick /\ UNCHANGED nonQueryVars

TimedQuerySpec == Init /\ [][TimedQueryNext]_vars

\* The query with the tool-use blocks of its assistant messages drawn as well.
ToolQueryNext ==
    \/ \E claudeModel \in {"claude-opus-4-6", "other-model"} :
           StartQuery("none", claudeModel) /\ UNCHANGED nonQueryVars
    \/ \E text \in {"", "x", " "} : \E tools \in ToolLists :
           RecvAssistant(text, tools) /\ UNCHANGED nonQueryVars
    \/ \E result \in {"", "r"} : RecvResult(result, NoUsage) /\ UNCHANGED nonQueryVars
    \/ StreamEnd /\ UNCHANGED nonQueryVars
    \/ \E error \in Errors : Throw(error) /\ UNCHANGED nonQueryVars
    \/ Wake /\ UNCHANGED nonQueryVars
    \/ Abort /\ UNCHANGED nonQueryVars

ToolQuerySpec == Init /\ [][ToolQueryNext]_vars

ScoreSpec == Init /\ [][ScoreNext]_vars

ConsSpec == Init /\ [][ConsNext]_vars

ChatSpec == Init /\ [][ChatNext]_vars

RateSpec == Init /\ [][RateNext]_vars

BotSpec == Init /\ [][BotNext]_vars

ResumeSpec == Init /\ [][ResumeNext]_vars

StopSpec == Init /\ [][StopNext]_vars

\* Every attempt terminates (the stream ends or throws) and the timer of the
\* backoff sleep fires.
FairQuerySpec ==
    /\ Init /\ [][QueryNext]_vars
    /\ WF_vars((StreamEnd \/ \E error \in Errors : Throw(error)) /\ UNCHANGED nonQueryVars)
    /\ WF_vars(Wake /\ UNCHANGED nonQueryVars)

\* The awaited calls of the handlers return: every microtask runs, askClaude
\* comes back (it ends by itself, by its timeout or by the abort) and the
\* requests to the front end settle.
FairBotSpec ==
    /\ Init /\ [][BotNext]_vars
    /\ WF_vars(BotProgress(Users, {"ok", "error", "throw"}, FALSE) /\ UNCHANGED nonBotVars)

(***************************************************************************)
(* Lane queue claims                                                       *)
(***************************************************************************)
ThenQueued(i) == \E n \in DOMAIN jobs : jobs[n] = [kind |-> "then", item |-> i]

Settled(u, k) == lane[u][k].st \in {"fulfilled", "rejected"}

Increasing(s) == \A m, n \in DOMAIN s : m < n => s[m] < s[n]

\* C1: per user at most MAX_QUEUE_DEPTH work items are admitted (waiting or
\* running) at once; a withUserLock call made while MAX_QUEUE_DEPTH are
\* admitted invokes onOverflow and its work is dropped: it never runs and no
\* job is ever queued for it.
C1_DepthCap ==
    \A u \in Users :
        /\ Cardinality(Admitted(u)) <= MAX_QUEUE_DEPTH
        /\ \A k \in 1..Len(lane[u]) :
               lane[u][k].seen >= MAX_QUEUE_DEPTH =>
                   /\ lane[u][k].st = "dropped"
                   /\ lane[u][k].overflow
                   /\ ~lane[u][k].ran
                   /\ ~ThenQueued(<<u, k>>)
                   /\ \A n \in DOMAIN started[u] : started[u][n] # k

\* A call was dropped at full depth and the lane has since drained.
C1_Witness ==
    \E u \in Users : \E k \in 1..Len(lane[u]) :
        /\ lane[u][k].st = "dropped"
        /\ lane[u][k].seen = MAX_QUEUE_DEPTH
        /\ userQueueDepth[u] = 0
        /\ Len(completed[u]) = MAX_QUEUE_DEPTH

\* C2: for one user at most one work item runs at a time, items start and
\* complete in submission order, and an item starts only after every item
\* admitted before it has completed.
C2_SerialInOrder ==
    \A u \in Users :
        /\ Cardinality({k \in 1..Len(lane[u]) : lane[u][k].st = "running"}) <= 1
        /\ Increasing(started[u])
        /\ Increasing(completed[u])
        /\ \A k \in 1..Len(lane[u]) :
               lane[u][k].ran =>
                   \A j \in 1..(k - 1) : lane[u][j].st = "dropped" \/ Settled(u, j)

\* Three items of one user have completed while a fourth of that user runs.
C2_Witness ==
    \E u \in Users :
        /\ Len(completed[u]) = 3
        /\ \E k \in 1..Len(lane[u]) : lane[u][k].st = "running"

\* C3: a user's waiting work item depends on that user's lane only: it is
\* chained behind an item of the same user (or none), and once every earlier
\* item of that user has completed its start is scheduled, whatever the work
\* items of other users are doing.
C3_UsersIndependent ==
    \A u \in Users : \A k \in 1..Len(lane[u]) :
        /\ lane[u][k].prev[1] \in {0, u}
        /\ (/\ lane[u][k].st = "waiting"
            /\ \A j \in 1..(k - 1) : lane[u][j].st \notin {"waiting", "running"})
           => ThenQueued(<<u, k>>)

\* Work items of both users are running at the same time.
C3_Witness ==
    \A u \in Users : \E k \in 1..Len(lane[u]) : lane[u][k].st = "running"

\* C4: an admitted item whose predecessor in the lane failed (its promise
\* rejected) is started like after a success: its start is scheduled or it has
\* run; no admitted item settles without having run.
C4_FailureDoesNotStall ==
    \A u \in Users : \A k \in 1..Len(lane[u]) :
        /\ (lane[u][k].st # "dropped" /\ PromiseState(lane[u][k].prev) = "rejected"
              /\ lane[u][k].prev # NoItem)
           => (lane[u][k].ran \/ ThenQueued(<<u, k>>))
        /\ Settled(u, k) => lane[u][k].ran

\* An item ran to completion behind a predecessor that failed.
C4_Witness ==
    \E u \in Users : \E k \in 1..Len(lane[u]) :
        /\ lane[u][k].prev # NoItem
        /\ PromiseState(lane[u][k].prev) = "rejected"
        /\ lane[u][k].st = "fulfilled"

\* C5: a rejecting work item never surfaces as an unhandled rejection: no
\* promise created by withUserLock is rejected without a handler.
C5_NoUnhandledRejection == unhandled = {}

(***************************************************************************)
(* Query claims                                                            *)
(***************************************************************************)
Failed(n) == trace[n].end.cls \notin {"running", "ok"}

IsTimeout(e) == e.cls = "DOMException" /\ e.name = "TimeoutError"

NonEmptyError(r) == r.error.present /\ (r.error.msg # {} \/ r.error.hint # "")

\* C6: a query whose first two attempts fail with a retryable error and whose
\* third attempt succeeds returns the third attempt's result: no error, and as
\* usage what the backend reported in the third attempt, nothing of the two
\* failed ones.
C6_RetryThenSuccess ==
    (/\ pc = "done"
     /\ Len(trace) = 3
     /\ isRetryableError(trace[1].end)
     /\ isRetryableError(trace[2].end)
     /\ trace[3].end = Ok)
    => /\ ~response.error.present
       /\ response.usage = sentUsage
       /\ response.text = IF JoinTrim(textParts) # <<>> THEN JoinTrim(textParts)
                          ELSE NoTextPlaceholder

\* Two retryable failures, then a success that reported usage.
C6_Witness ==
    /\ pc = "done"
    /\ Len(trace) = 3
    /\ isRetryableError(trace[1].end)
    /\ isRetryableError(trace[2].end)
    /\ trace[3].end = Ok
    /\ response.usage = 2
    /\ response.text = <<"x">>

\* The models of the attempts made so far, and the one selected for the next
\* attempt while the query is backing off.
ModelPath ==
    [n \in 1..Len(trace) |-> trace[n].model]
        \o (IF pc = "backoff" THEN <<CurrentModel>> ELSE <<>>)

CountOf(s, x) == Cardinality({n \in DOMAIN s : s[n] = x})

\* C7: the first retry runs on the model of the initial attempt; every later
\* retry runs on the downgrade target of the model before it when the chain
\* has one, and on the same model when it has none; each switch emits one
\* failover notice and each retry one retry notice.
C7_FailoverFromSecondRetry ==
    /\ \A n \in 2..Len(ModelPath) :
           ModelPath[n] = IF n >= 3 /\ getFailoverModel(ModelPath[n - 1]) # "none"
                          THEN getFailoverModel(ModelPath[n - 1])
                          ELSE ModelPath[n - 1]
    /\ CountOf(notices, "failover")
         = Cardinality({n \in 2..Len(ModelPath) : ModelPath[n] # ModelPath[n - 1]})
    /\ Len(ModelPath) > 0 => CountOf(notices, "retry") = Len(ModelPath) - 1

\* A query on opus whose retries went opus, sonnet, haiku.
C7_Witness ==
    /\ Len(trace) = 4
    /\ trace[1].model = "claude-opus-4-6"
    /\ trace[2].model = "claude-opus-4-6"
    /\ trace[3].model = "claude-sonnet-4-6"
    /\ trace[4].model = "claude-haiku-4-5-20251001"
    /\ CountOf(notices, "failover") = 2

\* The state part of C8: at most MAX_RETRIES + 1 attempts, an attempt is
\* followed by another only through a backoff after a retryable failure, and
\* a query whose attempts all failed with a retryable error (the caller not
\* having aborted) returns a non-empty error.
AttemptsBounded ==
    /\ Len(trace) <= MAX_RETRIES + 1
    /\ pc # "idle" => Len(trace) = attempt + 1
    /\ \A n \in 1..(Len(trace) - 1) : isRetryableError(trace[n].end) /\ ~trace[n].aborted
    /\ pc = "backoff" =>
           /\ attempt < MAX_RETRIES
           /\ isRetryableError(trace[Len(trace)].end)
    /\ pc = "stream" <=> (trace # <<>> /\ trace[Len(trace)].end = Running)
    /\ (/\ pc = "done"
        /\ Len(trace) = MAX_RETRIES + 1
        /\ \A n \in 1..Len(trace) : isRetryableError(trace[n].end) /\ ~trace[n].aborted)
       => NonEmptyError(response)

\* C8: a query makes at most MAX_RETRIES + 1 attempts, following
\* ATTEMPT(n) -> DONE | BACKOFF -> ATTEMPT(n+1); when each attempt terminates
\* a query in flight reaches DONE; and when every attempt failed with a
\* retryable error it ends with a non-empty error instead of retrying further.
C8_BoundedAttempts ==
    /\ []AttemptsBounded
    /\ [](pc = "stream" => <>(pc = "done"))

\* Four attempts, each failed with a retryable error.
C8_Witness ==
    /\ pc = "done"
    /\ Len(trace) = MAX_RETRIES + 1
    /\ \A n \in 1..Len(trace) : isRetryableError(trace[n].end) /\ ~trace[n].aborted
    /\ NonEmptyError(response)

\* C9: an attempt that fails with a non-retryable error (no abort, no
\* timeout) is the last attempt of its query: the query is done at once and
\* returns that error, non-empty.
C9_FatalNotRetried ==
    \A n \in 1..Len(trace) :
        (/\ Failed(n)
         /\ ~isRetryableError(trace[n].end)
         /\ ~IsTimeout(trace[n].end)
         /\ ~trace[n].aborted)
        => /\ n = Len(trace)
           /\ pc = "done"
           /\ NonEmptyError(response)
           /\ response.error.msg = trace[n].end.msg

\* An auth failure on the first retry ended the query with the login hint.
C9_Witness ==
    /\ pc = "done"
    /\ Len(trace) = 2
    /\ trace[2].end = Err("Error", "Error", {"auth"})
    /\ ~trace[2].aborted
    /\ response.error.hint = "login again"

\* C10: a query ended by a throw while the caller's signal is aborted returns
\* the text accumulated so far (the stop notice when there is none) and no
\* error; a query ended by the timeout returns the text accumulated so far
\* (the timeout notice when there is none) and a non-empty error.
C10_AbortAndTimeout ==
    (pc = "done" /\ trace # <<>> /\ Failed(Len(trace))) =>
        LET last == trace[Len(trace)]
            partial == JoinTrim(textParts)
        IN /\ IsTimeout(last.end) =>
                  /\ NonEmptyError(response)
                  /\ response.text = IF partial # <<>> THEN partial ELSE TimeoutReason
           /\ (last.aborted /\ ~IsTimeout(last.end)) =>
                  /\ ~response.error.present
                  /\ response.text = IF partial # <<>> THEN partial ELSE StoppedReason

\* A query stopped by the caller after text had arrived.
C10_Witness ==
    /\ pc = "done"
    /\ trace # <<>>
    /\ Failed(Len(trace))
    /\ trace[Len(trace)].aborted
    /\ ~IsTimeout(trace[Len(trace)].end)
    /\ textParts = <<"x", " ">>
    /\ response.text = <<"x">>
    /\ ~response.error.present

\* A query ended by the timeout after text had arrived.
C10_WitnessTimeout ==
    /\ pc = "done"
    /\ trace # <<>>
    /\ IsTimeout(trace[Len(trace)].end)
    /\ ~trace[Len(trace)].aborted
    /\ response.text = <<"x">>
    /\ NonEmptyError(response)

\* C11: once the caller's signal has fired while the query was in progress
\* (during an attempt or during the backoff sleep), the query ends with the
\* abort result, partial text and no error, and never with the success
\* return of an attempt.
C11_AbortObserved ==
    (pc = "done" /\ aborted) =>
        /\ Failed(Len(trace))
        /\ ~response.error.present
        /\ response = AbortResponse(textParts, FALSE)

\* The signal fired during the backoff sleep and the next attempt, whose
\* controller never heard of it, ran to its normal end.
C11_DeafAttemptSucceeds ==
    /\ pc = "done"
    /\ aborted
    /\ ctrl = "deaf"
    /\ trace[Len(trace)].end = Ok
    /\ response = SuccessResponse(textParts, usage, CurrentModel)

\* C12: the 2 hour ceiling is measured over the whole query: counting all
\* attempts and backoff waits, a query is never in flight for longer than
\* the ceiling.
C12_WholeQueryCeiling == elapsed <= TIMEOUT_HOURS

\* A query still in flight after more than the ceiling, none of its attempts
\* having lasted longer than the ceiling and the caller's signal not aborted.
C12_LongQuery ==
    /\ pc = "stream"
    /\ ~aborted
    /\ elapsed > TIMEOUT_HOURS
    /\ timer <= TIMEOUT_HOURS

(***************************************************************************)
(* Streaming coordinator claims                                            *)
(***************************************************************************)

\* C13: two flushes that are not forced and that each issue an update to the
\* front end are never started less than 1.5 seconds apart.
C13_FlushesThrottled ==
    \A m \in 1..Len(starts) - 1 : starts[m + 1] - starts[m] >= THROTTLE_MS

\* Two flushes issued an update and a further progress event, arriving
\* within the interval or while an update was in flight, issued none.
C13_Witness ==
    /\ Len(starts) = 2
    /\ events = 3
    /\ starts[2] - starts[1] = THROTTLE_MS

\* The front end accepted the final text of a query that returned normally:
\* as the edit of the progress message or as a new message.
FinalAccepted == outcome = "ok" /\ (editOk = "true" \/ FinalText \in sent)

\* C14: on completion one final update that bypasses the throttle is always
\* performed, so that once the handler is done and no request is in flight
\* the message shown to the user is the complete response (the progress
\* message edited to it, or a new message in place of the deleted one).
C14_FinalShown ==
    (handler = "done" /\ wire = <<>> /\ FinalAccepted) =>
        \/ shown = FinalText
        \/ shown = Deleted /\ FinalText \in sent

\* The final edit was accepted and a progress edit sent again later has
\* replaced it by a preview.
C14_StalePreview ==
    /\ handler = "done"
    /\ wire = <<>>
    /\ editOk = "true"
    /\ shown[1] = "preview"

PlainInFlight(c) ==
    Cardinality({n \in DOMAIN wire :
                    wire[n].by = c /\ wire[n].op = "edit" /\ ~wire[n].parseMode})

EditsInFlight(c) ==
    Cardinality({n \in DOMAIN wire : wire[n].by = c /\ wire[n].op = "edit"})

\* C15: a formatted update that fails is followed by exactly one plain
\* resend; when that fails too safeEditText sends nothing more and returns
\* false, and for the final result the caller then deletes the progress
\* message and sends the text as a new message.
C15_OnePlainResend ==
    /\ \A c \in Callers :
          LET t == tries[c]
          IN /\ Len(t) <= 2
             /\ Len(t) = 2 => t[1].parseMode /\ ~t[1].ok /\ ~t[2].parseMode
             /\ (Len(t) = 1 /\ t[1].parseMode /\ ~t[1].ok) =>
                    PlainInFlight(c) = 1 /\ EditsInFlight(c) = 1
             /\ (Len(t) = 2 /\ ~t[2].ok) => EditsInFlight(c) = 0
    /\ editOk = "false" <=>
          /\ outcome = "ok"
          /\ Len(tries["final"]) = 2
          /\ ~tries["final"][2].ok
    /\ editOk = "false" => <<"delete", FinalText>> \in asked
    /\ (editOk = "false" /\ handler \in {"send", "errEdit", "done"}) =>
          <<"send", FinalText>> \in asked

\* The formatted final edit and its plain resend both failed; the progress
\* message was deleted and the text delivered as a new message.
C15_Witness ==
    /\ handler = "done"
    /\ editOk = "false"
    /\ tries["final"] = <<[parseMode |-> TRUE, ok |-> FALSE],
                          [parseMode |-> FALSE, ok |-> FALSE]>>
    /\ shown = Deleted
    /\ sent = {FinalText}

(***************************************************************************)
(* Session store claims                                                    *)
(***************************************************************************)
ActiveOf(u) == {a \in activeSessions : a.user = u}

HasSession(u, sid) == \E r \in sessions : r.user = u /\ r.sessionId = sid

\* C16: createSession followed by getActiveSession for the same user returns
\* the handle and title just created; a getActiveSession that finds the
\* active session idle for more than sessionTimeoutHours returns none and
\* removes the user's active pointer, and one that finds it idle for no
\* longer returns it and keeps the pointer.
C16_CreateGetRoundTrip ==
    /\ lastOp.op = "create" =>
          ActiveResult(lastOp.user) =
              [sessionId |-> lastOp.sessionId, title |-> lastOp.title]
    /\ (lastOp.op = "get" /\ lastOp.sessionId # "none") =>
          IF lastOp.idle > sessionTimeoutHours
          THEN /\ lastOp.result = NoSession
               /\ ActiveOf(lastOp.user) = {}
          ELSE /\ lastOp.result = [sessionId |-> lastOp.sessionId, title |-> lastOp.title]
               /\ ActiveOf(lastOp.user) =
                      {[user |-> lastOp.user, sessionId |-> lastOp.sessionId]}

\* getActiveSession found the created session idle for longer than the
\* timeout, returned none and evicted it.
C16_Witness ==
    /\ lastOp.op = "get"
    /\ <<lastOp.user, lastOp.sessionId>> \in everCreated
    /\ lastOp.idle = sessionTimeoutHours + 1
    /\ lastOp.result = NoSession
    /\ ActiveOf(lastOp.user) = {}

\* C17: whatever createSession, setActiveSession, clearActiveSession,
\* touchSession and getActiveSession calls were made, each user has at most
\* one active session.
C17_OneActiveSession == \A u \in Users : Cardinality(ActiveOf(u)) <= 1

\* A user with two sessions resumed the second one: it alone is active.
C17_Witness ==
    /\ lastOp.op = "setActive"
    /\ lastOp.user = 1
    /\ lastOp.sessionId = "s2"
    /\ {<<1, "s1">>, <<1, "s2">>} \subseteq everCreated
    /\ ActiveOf(1) = {[user |-> 1, sessionId |-> "s2"]}

Listed(u, sid) ==
    \A q \in getRecentSessions(sessions, u, RECENT_LIMIT) :
        \E i \in DOMAIN q : q[i].sessionId = sid

\* C18: sessions are never hard-deleted: every session ever created is still
\* stored and listed by getRecentSessions, and a clearActiveSession or a
\* getActiveSession (expiry eviction included) changes no list that
\* getRecentSessions returns; clearActiveSession leaves the user without
\* active pointer.
C18_SessionsKept ==
    /\ [](\A k \in everCreated : HasSession(k[1], k[2]) /\ Listed(k[1], k[2]))
    /\ [][lastOp'.op \in {"clear", "get"} =>
             \A u \in Users : \A limit \in 1..RECENT_LIMIT :
                 getRecentSessions(sessions', u, limit)
                     = getRecentSessions(sessions, u, limit)]_vars
    /\ [](lastOp.op = "clear" => ActiveOf(lastOp.user) = {})

\* The active session of a user was cleared by /new: it is active no more
\* and still listed.
C18_Witness ==
    /\ lastOp.op = "clear"
    /\ lastOp.user = 1
    /\ ActiveOf(1) = {}
    /\ everCreated = {<<1, "s1">>}
    /\ Listed(1, "s1")

\* The active session of a user was evicted on expiry and is still listed.
C18_WitnessEviction ==
    /\ lastOp.op = "get"
    /\ lastOp.idle > sessionTimeoutHours
    /\ ActiveOf(lastOp.user) = {}
    /\ <<lastOp.user, lastOp.sessionId>> \in everCreated
    /\ Listed(lastOp.user, lastOp.sessionId)

(***************************************************************************)
(* Fact store claims                                                       *)
(***************************************************************************)

\* C19: saving a fact text a user already has leaves exactly one row with
\* that text, the row it had, with updated_at set by the later save; and
\* after any sequence of saveFact calls no two rows of one user carry the
\* same fact text.
C19_SaveFactUpserts ==
    /\ \A r1, r2 \in facts : (r1.user = r2.user /\ r1.fact = r2.fact) => r1 = r2
    /\ lastFactOp.op = "save" =>
          LET rows == {r \in facts : r.user = lastFactOp.user /\ r.fact = lastFactOp.arg}
              old == {r \in before : r.user = lastFactOp.user /\ r.fact = lastFactOp.arg}
          IN /\ Cardinality(rows) = 1
             /\ \A r \in rows : r.updatedAt = lastFactOp.at /\ r.category = lastFactOp.category
             /\ old # {} => /\ Ids(rows) = Ids(old)
                            /\ Cardinality(facts) = Cardinality(before)
                            /\ \A r \in rows : \A o \in old : r.createdAt = o.createdAt

\* A fact was saved a second time, later than the first: one row, updated.
C19_Witness ==
    /\ lastFactOp.op = "save"
    /\ \E o \in before :
          /\ o.user = lastFactOp.user
          /\ o.fact = lastFactOp.arg
          /\ o.updatedAt < lastFactOp.at
          /\ \E r \in facts : r.id = o.id /\ r.updatedAt = lastFactOp.at
    /\ Cardinality({r \in facts : r.user = lastFactOp.user /\ r.fact = lastFactOp.arg}) = 1

\* A read that touched exactly the rows it returned: their access_count is
\* one more and their last_accessed_at the time of the read, and every other
\* row is as before.
TouchedExactlyReturned ==
    /\ Ids(facts) = Ids(before)
    /\ \A o \in before : \A r \in facts : r.id = o.id =>
          IF o.id \in lastFactOp.returned
          THEN r = [o EXCEPT !.accessCount = o.accessCount + 1,
                             !.lastAccessedAt = lastFactOp.at]
          ELSE r = o

\* C20: every successful read of facts by search (searchFacts) or by list
\* (getUserFacts) increments access_count and refreshes last_accessed_at for
\* exactly the rows it returns.
C20_ReadsTouchReturned ==
    lastFactOp.op \in {"search", "list"} => TouchedExactlyReturned

\* The part of C20 that is about searchFacts.
SearchTouchesReturned == lastFactOp.op = "search" => TouchedExactlyReturned

\* getUserFacts returned rows and left their access fields alone.
C20_ListLeavesUntouched ==
    /\ lastFactOp.op = "list"
    /\ lastFactOp.returned # {}
    /\ facts = before

(***************************************************************************)
(* Relevance score claims                                                  *)
(***************************************************************************)
Called == scoreNow > 0

\* The scored fact updated one day earlier, all else equal.
OneDayOlder == [scored EXCEPT !.updatedAt = scored.updatedAt - 1]

\* The scored fact accessed at the time of the call, all else equal.
JustAccessed == [scored EXCEPT !.lastAccessedAt = scoreNow]

\* The halving: a fact last accessed more than DECAY_THRESHOLD_DAYS days ago
\* scores half of what it scores when accessed just now, all else equal.
HalvedWhenStale ==
    (Called /\ scored.lastAccessedAt > 0
            /\ DaysSinceAccess(scored, scoreNow) > DECAY_THRESHOLD_DAYS) =>
        2 * score = scoreFact(JustAccessed, scoreNow)

\* C21: the score strictly decreases as the days since the last update
\* increase, all else equal, and it is halved once the days since the last
\* access exceed 30.
C21_ScoreStrictlyDecreases ==
    /\ (Called /\ scored.updatedAt > 1) => scoreFact(OneDayOlder, scoreNow) < score
    /\ HalvedWhenStale

\* C21 amended: the score never increases as the days since the last update
\* increase, all else equal, and strictly decreases while they are fewer
\* than 100 (the base score is floored at zero from 100 days on); it is
\* halved once the days since the last access exceed 30.
C21_ScoreDecreasesToFloor ==
    /\ (Called /\ scored.updatedAt > 1) =>
          /\ scoreFact(OneDayOlder, scoreNow) <= score
          /\ DaysSinceUpdate(scored, scoreNow) < 100 =>
                 scoreFact(OneDayOlder, scoreNow) < score
    /\ HalvedWhenStale

\* A fact updated 100 days ago and accessed 31 days ago: its base score is at
\* the floor, so a day more changes nothing, and its score is halved.
C21_Witness ==
    /\ Called
    /\ DaysSinceUpdate(scored, scoreNow) = 100
    /\ scored.lastAccessedAt > 0
    /\ DaysSinceAccess(scored, scoreNow) = DECAY_THRESHOLD_DAYS + 1
    /\ scored.accessCount = 2
    /\ score = 10
    /\ scoreFact(OneDayOlder, scoreNow) = score

(***************************************************************************)
(* C22: a consolidation whose completion is malformed (the call throws,    *)
(* the text is empty, holds no JSON object, or holds one that does not     *)
(* parse) is a no-op: when it has returned, the fact table, and so the     *)
(* user's fact count, is what it was when the consolidation was called.    *)
(***************************************************************************)
MalformedReturned == cpc = "done" /\ resp.kind \in Malformed

C22_MalformedIsNoOp == MalformedReturned => facts = atStart

\* An unparsable completion that proposed merges has returned, for a user with
\* enough facts to consolidate.
C22_Witness ==
    /\ MalformedReturned
    /\ resp.kind = "badJson"
    /\ resp.groups # <<>>
    /\ Cardinality(atStart) >= MIN_FACTS

(***************************************************************************)
(* C28: each merge group is applied atomically: in no persisted state,     *)
(* even after a crash between two statements, is the replacement of a      *)
(* group inserted while facts the group supersedes are still present.      *)
(***************************************************************************)
Range(s) == {s[i] : i \in 1..Len(s)}

\* The replacement of group g was inserted, and a fact it supersedes is there.
HalfApplied(g) ==
    /\ g.new_fact # ""
    /\ \E r \in facts : r.fact = g.new_fact /\ r.user = ConsUser /\ r.id \notin Ids(atStart)
    /\ \E id \in Range(g.delete_ids) : id \in Ids({r \in facts : r.user = ConsUser})

C28_MergeGroupAtomic ==
    cpc = "crashed" => \A i \in 1..Len(resp.groups) : ~HalfApplied(resp.groups[i])

(***************************************************************************)
(* C23: a chat-completions query cut short mid-stream returns the text     *)
(* accumulated so far: with no error when the caller aborted it, with a    *)
(* non-empty error when the hard timeout fired; partial text is never      *)
(* discarded.                                                              *)
(***************************************************************************)
CutShortMidStream ==
    /\ chatPc = "idle"
    /\ chatCause \in {"abort", "timeout"}
    /\ Trim(cutText) # <<>>

C23_PartialTextReturned ==
    CutShortMidStream =>
        /\ chatResp.text = Trim(cutText)
        /\ chatCause = "abort" => chatResp.error = ""
        /\ chatCause = "timeout" => chatResp.error # ""

(***************************************************************************)
(* C24: a chat-completions provider retries a backend call that failed     *)
(* with a retryable signal (rate limit, overload, 5xx): the caller sees    *)
(* the error of such a call only after the call was made again.            *)
(***************************************************************************)
C24_RetriedBeforeError ==
    (chatPc = "idle" /\ chatCause = "retryable" /\ chatResp.error # "") => fetches > 1

(***************************************************************************)
(* C30: the stored history of a session never exceeds 40 messages; the     *)
(* exchange of a successful query is appended and the history cut to its   *)
(* most recent messages, in order; a query that fails or is aborted        *)
(* leaves the stored messages as they were.                                *)
(***************************************************************************)
IsSuffix(s, t) == Len(s) <= Len(t) /\ s = SubSeq(t, Len(t) - Len(s) + 1, Len(t))

HistoryBounded == \A id \in ChatIds : Len(chatSessions[id].messages) <= HISTORY_MAX

QueryEnds == chatPc # "idle" /\ chatPc' = "idle"

HistoryStep ==
    \A id \in ChatIds :
        LET messages == chatSessions[id].messages
            after == chatSessions'[id].messages
            n == NextExchange(messages)
        IN IF QueryEnds /\ chatCause' = "done" /\ id = chatCur
           THEN /\ IsSuffix(after, messages \o <<Message("user", n), Message("assistant", n)>>)
                /\ Len(after) >= 2
           ELSE after = messages

C30_HistoryTrimmed == []HistoryBounded /\ [][HistoryStep]_vars

\* A session whose history was cut: it no longer starts at the first exchange,
\* and a later query on it was aborted.
C30_Witness ==
    /\ chatPc = "idle"
    /\ chatCause = "abort"
    /\ chatSessions[chatCur].messages # <<>>
    /\ chatSessions[chatCur].messages[1].n > 1

(***************************************************************************)
(* C25: per user at most 5 updates are passed to the handlers within any   *)
(* 60-second window (any 6 passed updates span at least 60 seconds); an    *)
(* update arriving when 5 were passed in the preceding 60 seconds is       *)
(* answered with the notice, not passed on and not counted; any other      *)
(* update is passed on.                                                    *)
(***************************************************************************)
AtMostLimitPerWindow ==
    \A u \in Users : \A i \in 1..Len(accepted[u]) :
        i + RATE_LIMIT <= Len(accepted[u]) =>
            accepted[u][i + RATE_LIMIT] - accepted[u][i] >= RATE_WINDOW_MS

AcceptedInPreceding(u, t) ==
    Cardinality({i \in 1..Len(accepted[u]) : t - accepted[u][i] < RATE_WINDOW_MS})

RateStep ==
    rlUpdates' # rlUpdates =>
        LET u == rlLast'.user
        IN IF AcceptedInPreceding(u, rlNow) >= RATE_LIMIT
           THEN /\ rlLast'.did = "reply"
                /\ accepted' = accepted
                /\ userMessageTimestamps' = userMessageTimestamps
           ELSE /\ rlLast'.did = "next"
                /\ accepted'[u] = Append(accepted[u], rlNow)

C25_RateLimited == []AtMostLimitPerWindow /\ [][RateStep]_vars

\* A user was refused, and later, the window having passed, let through again.
C25_Witness ==
    /\ rlLast.did = "next"
    /\ Len(accepted[rlLast.user]) > RATE_LIMIT
    /\ rlUpdates > Len(accepted[1]) + Len(accepted[2])

(***************************************************************************)
(* C26: at most one update request for a query's progress message is       *)
(* outstanding at any time: flush attempts made while a flush is in flight *)
(* are dropped, and the guard is released when the update settles.         *)
(***************************************************************************)
Outstanding(callers) ==
    {i \in 1..Len(wire) : wire[i].op = "edit" /\ wire[i].by \in callers}

\* Among the flushes alone: the guard is set exactly while a flush request
\* (its formatted edit or its plain resend) is outstanding, and there is one.
FlushRequestsCoalesced ==
    /\ Cardinality(Outstanding({"flush"})) <= 1
    /\ editPending <=> Outstanding({"flush"}) # {}

C26_OneUpdateOutstanding == Cardinality(Outstanding(Callers)) <= 1

(***************************************************************************)
(* C27: the text and toolsUsed of the returned response hold only output   *)
(* of the last attempt: the text is the trimmed text of that attempt (or a *)
(* placeholder or nothing when it is empty or the query failed), the tools *)
(* are the tools of that attempt, and no retry or failover notice is in    *)
(* the text.                                                               *)
(***************************************************************************)
LastAttemptText == JoinTrim(attemptOut.text)

C27_OnlyLastAttemptOutput ==
    pc = "done" =>
        /\ \/ response.text = LastAttemptText
           \/ response.error.present /\ response.text = <<>>
           \/ /\ LastAttemptText = <<>>
              /\ response.text \in {NoTextPlaceholder, StoppedReason, TimeoutReason}
        /\ returnedTools \in {attemptOut.tools, Dedup(attemptOut.tools)}
        /\ Range(response.text) \cap Range(notices) = {}

\* A query returns text and a tool of its last attempt after an earlier
\* attempt that had produced output failed and was retried.
C27_Witness ==
    /\ pc = "done"
    /\ attemptOut.lost
    /\ notices # <<>>
    /\ response.text = <<"x">>
    /\ returnedTools = <<"Bash">>

(***************************************************************************)
(* C29 as stated: for every user the depth counter always equals the       *)
(* number of admitted work items not yet completed (waiting or running),   *)
(* and when that number is zero neither map holds an entry for the user.   *)
(***************************************************************************)
C29_DepthEqualsUnfinished ==
    \A u \in Users :
        /\ userQueueDepth[u] = Cardinality(Admitted(u))
        /\ Admitted(u) = {} => userQueueDepth[u] = 0 /\ userLocks[u] = NoItem

(***************************************************************************)
(* C29, amended: the depth counter of a user equals the number of admitted *)
(* work items whose finally callback has not yet run: those waiting or     *)
(* running, plus those settled whose callback is still queued. So it       *)
(* equals the number of unfinished items whenever no callback is queued.   *)
(* The two maps hold an entry for a user together: both are removed by the *)
(* callback that brings the depth to zero.                                 *)
(***************************************************************************)
PendingFinally(u) ==
    {n \in 1..Len(jobs) : jobs[n].kind = "finally" /\ jobs[n].item[1] = u}

C29_DepthCountsUnfinalized ==
    \A u \in Users :
        /\ userQueueDepth[u] = Cardinality(Admitted(u)) + Cardinality(PendingFinally(u))
        /\ userQueueDepth[u] = 0 <=> userLocks[u] = NoItem

\* A user whose queue held three items at once has none left: the depth is
\* back at zero and both entries are gone.
C29_Witness ==
    \E u \in Users :
        /\ \E k \in 1..Len(lane[u]) : lane[u][k].seen = MAX_QUEUE_DEPTH - 1
        /\ Len(completed[u]) >= MAX_QUEUE_DEPTH
        /\ jobs = <<>>
        /\ userQueueDepth[u] = 0
        /\ userLocks[u] = NoItem

(***************************************************************************)
(* C31: no progress update of the progress message is sent to the front    *)
(* end after the final edit of that message was sent: among the requests   *)
(* in flight, in the order sent, no flush request follows the final edit.  *)
(***************************************************************************)
C31_NoProgressAfterFinal ==
    \A m \in DOMAIN wire : \A n \in DOMAIN wire :
        (wire[m].by = "final" /\ wire[m].op = "edit" /\ wire[n].by = "flush") => n < m

(***************************************************************************)
(* C32: after the consolidation has applied a merge group with a non-empty *)
(* delete list, the user's facts hold a row with the group's replacement   *)
(* text, also when that text equals the text of a fact in the delete list. *)
(***************************************************************************)
Applied(g) == g.new_fact # "" /\ g.delete_ids # <<>>

C32_ReplacementPresent ==
    (cpc = "done" /\ resp.kind = "merge") =>
        \A i \in 1..Len(resp.groups) :
            Applied(resp.groups[i]) =>
                \E r \in facts : r.user = ConsUser /\ r.fact = resp.groups[i].new_fact

(***************************************************************************)
(* C39: the consolidation of a user leaves every other user's facts as     *)
(* they were, whatever ids the completion names in its delete lists, and   *)
(* every row it adds belongs to the user.                                  *)
(***************************************************************************)
OthersFacts(tbl) == {r \in tbl : r.user # ConsUser}

C39_OnlyOwnFacts ==
    cpc # "idle" =>
        /\ OthersFacts(facts) = OthersFacts(atStart)
        /\ \A r \in facts \ atStart : r.user = ConsUser

\* A merge group naming a fact of another user was applied: its own fact is
\* deleted, its replacement inserted, the other user's fact still there.
C39_Witness ==
    /\ cpc = "done"
    /\ resp.kind = "merge"
    /\ \E i \in 1..Len(resp.groups) :
          LET g == resp.groups[i]
          IN /\ Applied(g)
             /\ \E id \in Range(g.delete_ids) :
                    \E r \in atStart : r.id = id /\ r.user = OtherUser
             /\ \E r \in facts \ atStart : r.fact = g.new_fact
             /\ \E id \in Range(g.delete_ids) : id \in Ids(atStart) \ Ids(facts)
    /\ OthersFacts(facts) # {}

\* The place of a model on the chain opus -> sonnet -> haiku; a model that is
\* not on the chain has place 0.
ChainPlace(model) ==
    CASE model = "claude-opus-4-6" -> 1
      [] model = "claude-sonnet-4-6" -> 2
      [] model = "claude-haiku-4-5-20251001" -> 3
      [] OTHER -> 0

\* C38: within one query the attempts never run on a model that lies earlier
\* on the chain opus -> sonnet -> haiku than the model of an attempt before
\* (a model off the chain is never left), and the model reported by a
\* successful response is the model of the attempt that succeeded.
C38_ModelOnlyForward ==
    /\ \A m \in DOMAIN trace : \A n \in DOMAIN trace :
           m < n =>
               /\ ChainPlace(trace[m].model) <= ChainPlace(trace[n].model)
               /\ ChainPlace(trace[m].model) = 0 => trace[n].model = trace[m].model
    /\ (pc = "done" /\ trace # <<>> /\ trace[Len(trace)].end = Ok /\ ~trace[Len(trace)].aborted)
           => response.model = trace[Len(trace)].model

\* A query that went opus, opus, sonnet and succeeded on sonnet, which the
\* response reports.
C38_Witness ==
    /\ pc = "done"
    /\ Len(trace) = 3
    /\ trace[1].model = "claude-opus-4-6"
    /\ trace[3].model = "claude-sonnet-4-6"
    /\ trace[3].end = Ok
    /\ ~trace[3].aborted
    /\ response.model = "claude-sonnet-4-6"

\* C33: once a /stop has arrived while a query of its user was in flight,
\* the controller of that query is aborted (the /stop reached handleStop),
\* however many updates the user sent in the 60 seconds before.
C33_StopAlwaysAborts ==
    (lastUpd.kind = "stop" /\ lastUpd.inFlight)
        => <<lastUpd.user, lastUpd.ctl>> \in abortedCtl

\* What a /stop of user u leaves alone: the lanes (no queued item is removed
\* or reordered), the running handlers, the entries of the other users, and
\* every controller but the one of u's running query.
StopFrame(u) ==
    /\ laneVars' = laneVars
    /\ run' = run
    /\ \A v \in Users \ {u} : activeQueries'[v] = activeQueries[v]
    /\ (abortedCtl' \ abortedCtl) \subseteq {<<u, run[u].ctl>>}

\* C34: a /stop aborts at most the controller of the issuing user's running
\* query and changes nothing of the lanes, of the handlers or of other users;
\* no controller of a work item still queued is ever aborted, the items of a
\* user start in submission order, and whatever /stop commands arrive, time
\* and again no admitted item is left waiting (each has been started).
C34_StopAbortsOnlyCurrent ==
    /\ [](\A u \in Users :
              /\ Increasing(started[u])
              /\ \A k \in 1..Len(lane[u]) :
                     lane[u][k].st = "waiting" => <<u, k>> \notin abortedCtl)
    /\ [][\A u \in Users : HandleStop(u) => StopFrame(u)]_vars
    /\ []<>(\A u \in Users : \A k \in 1..Len(lane[u]) : lane[u][k].st # "waiting")

\* The first query of user 1 was stopped; the item submitted behind it while
\* it was admitted has started since and is not aborted, and the query of
\* user 2 is in flight with its controller registered and not aborted.
C34_Witness ==
    /\ <<1, 1>> \in abortedCtl
    /\ Len(lane[1]) >= 2
    /\ lane[1][2].seen = 1
    /\ started[1] = <<1, 2>>
    /\ run[1].pc = "asking"
    /\ <<1, 2>> \notin abortedCtl
    /\ run[2].pc = "asking"
    /\ activeQueries[2] = run[2].ctl
    /\ <<2, run[2].ctl>> \notin abortedCtl

\* C35: the entry of a user in activeQueries, when there is one, is the
\* controller of that user's running handleQueryWithStreaming call, which is
\* the callback of the lane item running for that user; while no call of the
\* user is running (none started yet, or the last one has returned on
\* whatever path) the user has no entry.
C35_EntryIsRunningQuery ==
    \A u \in Users :
        /\ activeQueries[u] # 0 =>
               /\ run[u].pc \in {"asking", "replying"}
               /\ activeQueries[u] = run[u].ctl
               /\ run[u].ctl = RunningItem(u)
        /\ run[u].pc = "idle" => activeQueries[u] = 0

\* The first query of user 1 was registered, stopped and has returned; the
\* user's next item waits and the user has no entry.
C35_Witness ==
    /\ <<1, 1>> \in abortedCtl
    /\ completed[1] = <<1>>
    /\ Len(lane[1]) >= 2
    /\ lane[1][2].st = "waiting"
    /\ run[1].pc = "idle"
    /\ activeQueries[1] = 0

\* C40: a handleQueryWithStreaming call that was given an onComplete callback
\* has invoked it at most once at any time, and exactly once when it is about
\* to return (the last onComplete awaited), on the success path, the error
\* response path and the thrown exception path alike.
C40_OnCompleteOnce ==
    \A u \in Users :
        run[u].cleanup =>
            /\ run[u].calls <= 1
            /\ run[u].pc = "finishing" => run[u].calls = 1

\* C36: once the query that was in flight when the user chose a session with
\* /resume has come back, the user's active-session pointer is the latest
\* such choice, until the next query of the user starts: the completing query
\* has not replaced it.
C36_ResumeSurvivesQuery ==
    \A u \in Users :
        (chose[u] \notin {"unset", "none"} /\ run[u].pc # "asking")
            => ActivePointer(u) = chose[u]

\* C37: when the last query of a user was issued without a session and came
\* back without error and with a session handle, and no /new or /resume was
\* handled since, the user's next query is issued with that handle and does
\* not create a session.
C37_SecondContinuesFirst ==
    \A u \in Users :
        (run[u].pc # "idle" /\ run[u].expected # "unset")
            => /\ run[u].session = run[u].expected
               /\ run[u].saved # "create"

\* The second of two messages sent back to back (it was submitted while the
\* first was admitted) is in flight with the handle the first query got, and
\* the first query was issued without a session.
C37_Witness ==
    /\ Len(lane[Sender]) >= 2
    /\ lane[Sender][2].seen = 1
    /\ run[Sender].ctl = 2
    /\ run[Sender].pc = "asking"
    /\ run[Sender].expected = "s1"
    /\ run[Sender].session = "s1"
    /\ everCreated = {<<Sender, "s1">>}

====
